---------------------------- MODULE Spec2Model ----------------------------
(***************************************************************************)
(* Model of the crawler persistence path of lottina:                       *)
(*   apps/api/lottina_api/crawlers/base.py   (BaseCrawler, slugify)        *)
(*   apps/api/lottina_api/crawlers/registry.py (CRAWLERS)                  *)
(*   apps/api/lottina_api/models.py          (Offer, Location, Category)   *)
(* of the extractors' pagination (fetch() of the three crawlers), of       *)
(*   apps/worker/utils/geocoding.py          (geocode_address)             *)
(* and of the orchestrator and its tasks,                                  *)
(*   apps/worker/worker.py   (run_slug, run_all, write_report, tasks).     *)
(*                                                                         *)
(* Specifications: Spec (crawler runs), FetchSpec (one fetch() and the     *)
(* run() that consumes it), GeoSpec (one geocode_address), RunSlugSpec     *)
(* (one run_slug, stage by stage), RunAllSpec (one run_all), ReportSpec    *)
(* (several runs writing reports), TaskSpec (one Celery task),            *)
(* DeliverySpec (a task whose worker can be lost), ConcurrentSpec (two     *)
(* runs side by side, each with its own session), QualitySpec (one upsert  *)
(* of a record with any optional fields missing).                          *)
(*                                                                         *)
(* Python strings that the code inspects (slugs, labels, location fields,  *)
(* identities) are sequences of one-character strings.  Strings that are   *)
(* only copied (titles, URLs) are opaque.  Long texts that are only sliced *)
(* (description, summary, price text) are records [id, len]: the prefix of *)
(* length len of the text named id.  An Optional value is <<>> for None    *)
(* and <<v>> for a value v.  Tables are sequences of rows; the primary key *)
(* of a row is its position.                                               *)
(***************************************************************************)
EXTENDS Integers, Sequences, FiniteSets, TLC

(* ---------------------------------------------------------------------- *)
(* Bounds of the model                                                     *)
(* ---------------------------------------------------------------------- *)
MaxRuns == 3
MaxFeed == 2

(* ---------------------------------------------------------------------- *)
(* Optional values and texts                                               *)
(* ---------------------------------------------------------------------- *)
None == <<>>

Some(v) == <<v>>

IsNone(o) == o = <<>>

Min(a, b) == IF a <= b THEN a ELSE b

\* s[:n] on a text
Take(t, n) == [id |-> t.id, len |-> Min(t.len, n)]

EmptyText == [id |-> "", len |-> 0]

Text(id, len) == IF len = 0 THEN EmptyText ELSE [id |-> id, len |-> len]

\* truth value of an Optional[str] holding a text: None and "" are falsy
TextTruthy(o) == o # <<>> /\ o[1].len > 0

\* truth value of an Optional[str] holding a character string
StrTruthy(o) == o # <<>> /\ o[1] # <<>>

\* (o or "") for a character string
StrOrEmpty(o) == IF StrTruthy(o) THEN o[1] ELSE <<>>

(* ---------------------------------------------------------------------- *)
(* Characters                                                              *)
(* ---------------------------------------------------------------------- *)
\* str.lower() on one character
LowerChar(c) ==
  CASE c = "A" -> "a" [] c = "C" -> "c" [] c = "D" -> "d" [] c = "E" -> "e"
    [] c = "H" -> "h" [] c = "I" -> "i" [] c = "K" -> "k" [] c = "M" -> "m"
    [] c = "N" -> "n" [] c = "O" -> "o" [] c = "R" -> "r" [] c = "S" -> "s"
    [] c = "T" -> "t" [] c = "V" -> "v"
    [] c = "Ö" -> "ö"
    [] OTHER -> c

\* the character class [a-z0-9] of slugify's regular expression
AsciiAlnum ==
  {"a","b","c","d","e","f","g","h","i","j","k","l","m","n","o","p","q","r",
   "s","t","u","v","w","x","y","z","0","1","2","3","4","5","6","7","8","9"}

Lower(s) == [i \in 1..Len(s) |-> LowerChar(s[i])]

RECURSIVE LStrip(_, _)
LStrip(s, cs) == IF s # <<>> /\ Head(s) \in cs THEN LStrip(Tail(s), cs) ELSE s

RECURSIVE RStrip(_, _)
RStrip(s, cs) ==
  IF s # <<>> /\ s[Len(s)] \in cs THEN RStrip(SubSeq(s, 1, Len(s) - 1), cs) ELSE s

\* str.strip(cs)
StripChars(s, cs) == RStrip(LStrip(s, cs), cs)

Whitespace == {" "}

\* str.strip()
Strip(s) == StripChars(s, Whitespace)

\* re.sub(r"[^a-z0-9]+", "-", s): every maximal run of other characters
\* becomes one "-"
RECURSIVE SubNonAlnum(_, _)
SubNonAlnum(s, inRun) ==
  IF s = <<>> THEN <<>>
  ELSE IF Head(s) \in AsciiAlnum THEN <<Head(s)>> \o SubNonAlnum(Tail(s), FALSE)
  ELSE IF inRun THEN SubNonAlnum(Tail(s), TRUE)
  ELSE <<"-">> \o SubNonAlnum(Tail(s), TRUE)

Kategorie == <<"k","a","t","e","g","o","r","i","e">>

slugify(value) ==
  LET v1 == Lower(Strip(value))
      v2 == SubNonAlnum(v1, FALSE)
      v3 == StripChars(v2, {"-"})
  IN IF v3 = <<>> THEN Kategorie ELSE v3


(* ---------------------------------------------------------------------- *)
(* Registered sources (crawlers/registry.py) and what their pages hold    *)
(* ---------------------------------------------------------------------- *)
\* CRAWLERS, each with its source_slug and source_name
CRAWLERS ==
  << [source_slug |-> <<"a","a","c","h","e","n","-","f","a","m","i","l","y">>,
      source_name |-> "aachen tourist service"],
     [source_slug |-> <<"g","r","u","e","n","m","e","t","r","o","p","o","l","e">>,
      source_name |-> "Grünmetropole e.V."],
     [source_slug |-> <<"r","u","r","-","e","i","f","e","l">>,
      source_name |-> "Rureifel Tourismus"] >>

Crawlers == DOMAIN CRAWLERS

\* the one category label RurEifelCrawler attaches to every record
Veranstaltungskalender == <<"V","e","r","a","n","s","t","a","l","t","u","n","g","s","k","a","l","e","n","d","e","r">>

\* EventPayload with its defaults
EventPayload(id, title, description, url) ==
  [external_id |-> id, title |-> title, description |-> description,
   source_url |-> url, summary |-> None, image_url |-> None,
   dt_start |-> None, dt_end |-> None,
   location_name |-> None, location_address |-> None, location_city |-> None,
   categories |-> <<>>, price_text |-> None, is_free |-> None,
   is_outdoor |-> None]

\* The records the detail pages of the three sites parse to, field by field
\* as the three _parse_detail methods build them: aachen-family derives the
\* summary from the description and sets price text and is_free together;
\* gruenmetropole carries no categories; rur-eifel carries no city and one
\* fixed category.  The source-local id "42" exists on all three sites;
\* page a2 is page a1 after the site changed it.
Catalogue ==
  << \* a1: aachen-family, id 42
     [EventPayload(<<"4","2">>, "Stadtfest", Text("d1", 450), "https://a/42")
        EXCEPT !.summary = Some(Take(Text("d1", 450), 400)),
               !.dt_start = Some(1),
               !.location_name = Some(<<"M","a","r","k","t">>),
               !.location_city = Some(<<"A","a","c","h","e","n">>),
               !.categories = << <<"Ö","f","f","e","n","t","l","i","c","h">>, <<"k","i","d","s","!">> >>],
     \* a2: aachen-family, id 42, changed
     [EventPayload(<<"4","2">>, "Stadtfest 2", EmptyText, "https://a/42")
        EXCEPT !.image_url = Some("img1"),
               !.dt_start = Some(2), !.dt_end = Some(3),
               !.location_name = Some(<<"M","a","r","k","t">>),
               !.location_address = Some(<<"H","a","u","p","t","s","t","r","a","ß","e"," ","1">>),
               !.location_city = Some(<<"O","t","h","e","r">>),
               !.price_text = Some(Text("p1", 10)),
               !.is_free = Some(TRUE)],
     \* a3: aachen-family, id 7
     [EventPayload(<<"7">>, "Kinderfest", Text("d2", 10), "https://a/7")
        EXCEPT !.summary = Some(Text("d2", 10)),
               !.location_name = Some(<<"M","A","R","K","T">>),
               !.location_city = Some(<<"A","A","C","H","E","N">>),
               !.categories = << <<"o","f","f","e","n","t","l","i","c","h">>, <<"K","i","d","s">> >>,
               !.price_text = Some(Text("p2", 10)),
               !.is_free = Some(FALSE)],
     \* g1: gruenmetropole, id 42
     [EventPayload(<<"4","2">>, "Wanderung", EmptyText, "https://g/42")
        EXCEPT !.summary = Some(EmptyText),
               !.location_name = Some(<<"M","a","r","k","t">>),
               !.location_city = Some(<<"A","a","c","h","e","n">>)],
     \* g2: gruenmetropole, id 8
     [EventPayload(<<"8">>, "Lesung", Text("d3", 390), "https://g/8")
        EXCEPT !.summary = Some(Text("d3", 390)),
               !.image_url = Some("img2"),
               !.dt_start = Some(1), !.dt_end = Some(2),
               !.location_name = Some(<<"M","|","H">>)],
     \* r1: rur-eifel, id 42
     [EventPayload(<<"4","2">>, "Markttag", Text("d4", 390), "https://r/42")
        EXCEPT !.summary = Some(Text("d4", 390)),
               !.categories = << Veranstaltungskalender >>],
     \* r2: rur-eifel, id 9
     [EventPayload(<<"9">>, "Konzert", EmptyText, "https://r/9")
        EXCEPT !.summary = Some(EmptyText),
               !.dt_start = Some(1),
               !.location_name = Some(<<"M">>),
               !.location_address = Some(<<"H","|">>),
               !.categories = << Veranstaltungskalender >>] >>

\* which catalogue records each crawler's site serves
PagesOf ==
  << {1, 2, 3}, {4, 5}, {6, 7} >>

(* ---------------------------------------------------------------------- *)
(* The store: tables offers, locations, categories (models.py)             *)
(* ---------------------------------------------------------------------- *)
EmptyDb == [offers |-> <<>>, locations |-> <<>>, categories |-> <<>>]

\* hashlib.sha256(s).hexdigest(), taken to be free of collisions: the digest
\* names the string it was computed from
sha256_hexdigest(s) == [sha256 |-> s]

\* "|".join((a, b, c))
JoinPipe(a, b, c) == a \o <<"|">> \o b \o <<"|">> \o c

\* Query.one_or_none() on the set of matching primary keys: 0 for no row.
\* More than one match raises MultipleResultsFound in the code; the
\* uniqueness invariants below show that no reachable query has two matches.
one_or_none(ids) == IF ids = {} THEN 0 ELSE CHOOSE i \in ids : \A j \in ids : i <= j

\* the identity built without the source slug
make_external_id_without_slug(c, payload) == payload.external_id

\* f"{self.source_slug}:{payload.external_id}"
make_external_id(c, payload) ==
  CRAWLERS[c].source_slug \o <<":">> \o payload.external_id

\* the lookup filtering on the wrong column
find_offer_by_source(db, external_id) ==
  {i \in DOMAIN db.offers : db.offers[i].source = external_id}

\* Offer.query.filter_by(external_id=external_id)
find_offer(db, external_id) ==
  {i \in DOMAIN db.offers : db.offers[i].external_id = external_id}

\* Offer(external_id=..., source=..., source_name=..., source_url=..., title=...)
new_offer(c, payload, external_id) ==
  [external_id |-> external_id,
   source |-> CRAWLERS[c].source_slug,
   source_name |-> CRAWLERS[c].source_name,
   source_url |-> payload.source_url,
   title |-> payload.title,
   description |-> None, summary |-> None, image |-> None,
   dt_start |-> None, dt_end |-> None,
   is_free |-> None, is_outdoor |-> None,
   location |-> 0, categories |-> <<>>]

DescriptionSummaryLen == 380

SummaryLen == 400

PriceSummaryLen == 400

\* the summary _persist_event stores
summary_of(payload) ==
  LET base == IF TextTruthy(payload.summary) THEN payload.summary[1]
              ELSE Take(payload.description, DescriptionSummaryLen)
      cut == Take(base, SummaryLen)
  IN IF TextTruthy(payload.price_text) /\ cut.len = 0
     THEN Take(payload.price_text[1], PriceSummaryLen)
     ELSE cut

\* the assignments without the one to title (the title set only by the
\* constructor of a new Offer)
overwrite_fields_but_title(offer, payload) ==
  [offer EXCEPT
     !.description = Some(payload.description),
     !.summary = Some(summary_of(payload)),
     !.source_url = payload.source_url,
     !.image = IF payload.image_url # None THEN payload.image_url ELSE offer.image,
     !.dt_start = payload.dt_start,
     !.dt_end = payload.dt_end,
     !.is_free = IF payload.is_free # None THEN payload.is_free ELSE offer.is_free,
     !.is_outdoor = IF payload.is_outdoor # None THEN payload.is_outdoor
                    ELSE offer.is_outdoor]

\* the assignments to the Offer's own columns
overwrite_fields(offer, payload) ==
  [offer EXCEPT
     !.title = payload.title,
     !.description = Some(payload.description),
     !.summary = Some(summary_of(payload)),
     !.source_url = payload.source_url,
     !.image = IF payload.image_url # None THEN payload.image_url ELSE offer.image,
     !.dt_start = payload.dt_start,
     !.dt_end = payload.dt_end,
     !.is_free = IF payload.is_free # None THEN payload.is_free ELSE offer.is_free,
     !.is_outdoor = IF payload.is_outdoor # None THEN payload.is_outdoor
                    ELSE offer.is_outdoor]

\* the test that takes every record to have a location
has_location_always(payload) == TRUE

\* has the record any location field
has_location(payload) ==
  StrTruthy(payload.location_name) \/ StrTruthy(payload.location_address)
    \/ StrTruthy(payload.location_city)

\* the fingerprint built without .lower()
fingerprint_without_lower(payload) ==
  sha256_hexdigest(JoinPipe(StrOrEmpty(payload.location_name),
                            StrOrEmpty(payload.location_address),
                            StrOrEmpty(payload.location_city)))

fingerprint_of(payload) ==
  sha256_hexdigest(Lower(JoinPipe(StrOrEmpty(payload.location_name),
                                  StrOrEmpty(payload.location_address),
                                  StrOrEmpty(payload.location_city))))

\* the lookup comparing the digest with the digest of the row's name alone
find_location_by_name(db, fingerprint) ==
  {i \in DOMAIN db.locations :
     sha256_hexdigest(Lower(StrOrEmpty(db.locations[i].name))) = fingerprint}

\* Location.query.filter_by(fingerprint=fingerprint)
find_location(db, fingerprint) ==
  {i \in DOMAIN db.locations : db.locations[i].fingerprint = fingerprint}

\* the merge of a record into the Location row it resolved to
merge_location(location, payload) ==
  [location EXCEPT
     !.name = IF StrTruthy(payload.location_name) /\ ~StrTruthy(location.name)
              THEN payload.location_name ELSE location.name,
     !.address = IF StrTruthy(payload.location_address) /\ ~StrTruthy(location.address)
                 THEN payload.location_address ELSE location.address,
     !.city = IF StrTruthy(payload.location_city) /\ ~StrTruthy(location.city)
              THEN payload.location_city ELSE location.city]

\* result: the store and the Location's primary key (0 for None)
_upsert_location(db, payload) ==
  IF ~has_location(payload) THEN [db |-> db, id |-> 0]
  ELSE LET fingerprint == fingerprint_of(payload)
           id == one_or_none(find_location(db, fingerprint))
       IN IF id = 0
          THEN [db |-> [db EXCEPT !.locations =
                          Append(@, [fingerprint |-> fingerprint,
                                     name |-> payload.location_name,
                                     address |-> payload.location_address,
                                     city |-> payload.location_city])],
                id |-> Len(db.locations) + 1]
          ELSE [db |-> [db EXCEPT !.locations[id] = merge_location(@, payload)],
                id |-> id]

\* the lookup by display name instead of slug
find_category_by_name(db, name) ==
  {i \in DOMAIN db.categories : db.categories[i].name = Strip(name)}

\* Category.query.filter_by(slug=slug)
find_category(db, name) ==
  {i \in DOMAIN db.categories : db.categories[i].slug = slugify(name)}

\* result: the store and the Category's primary key
_get_or_create_category(db, name) ==
  LET id == one_or_none(find_category(db, name))
  IN IF id = 0
     THEN [db |-> [db EXCEPT !.categories =
                     Append(@, [slug |-> slugify(name), name |-> Strip(name)])],
           id |-> Len(db.categories) + 1]
     ELSE [db |-> db, id |-> id]

\* [self._get_or_create_category(name) for name in payload.categories if name]
RECURSIVE get_or_create_all(_, _)
get_or_create_all(db, names) ==
  IF names = <<>> THEN [db |-> db, ids |-> <<>>]
  ELSE IF Head(names) = <<>> THEN get_or_create_all(db, Tail(names))
  ELSE LET one == _get_or_create_category(db, Head(names))
           rest == get_or_create_all(one.db, Tail(names))
       IN [db |-> rest.db, ids |-> <<one.id>> \o rest.ids]

\* the status that ignores the flag
status_always_created(created) == "created"

\* "created" if created else "updated"
status_of(created) == IF created THEN "created" ELSE "updated"

\* result: the store after the flush, the returned status, the primary key
\* of the Offer written and that of the Location the record resolved to
_persist_event(db, c, payload) ==
  LET external_id == make_external_id(c, payload)
      found == one_or_none(find_offer(db, external_id))
      created == found = 0
      id == IF created THEN Len(db.offers) + 1 ELSE found
      offer0 == IF created THEN new_offer(c, payload, external_id) ELSE db.offers[found]
      offer1 == overwrite_fields(offer0, payload)
      loc == _upsert_location(db, payload)
      offer2 == IF loc.id # 0 THEN [offer1 EXCEPT !.location = loc.id] ELSE offer1
      cats == IF payload.categories # <<>>
              THEN get_or_create_all(loc.db, payload.categories)
              ELSE [db |-> loc.db, ids |-> offer2.categories]
      offer3 == [offer2 EXCEPT !.categories = cats.ids]
  IN [db |-> [cats.db EXCEPT !.offers =
                IF created THEN Append(@, offer3) ELSE [@ EXCEPT ![id] = offer3]],
      status |-> status_of(created),
      id |-> id,
      location |-> loc.id]

(* ---------------------------------------------------------------------- *)
(* State                                                                   *)
(* ---------------------------------------------------------------------- *)
VARIABLES
  db,         \* the tables as the session sees them
  committed,  \* the tables as of the last db.session.commit()
  run,        \* BaseCrawler.run in progress: crawler, records still to come
  returned,   \* what the finished runs returned, latest last (at most two)
  last,       \* the last _persist_event call: its arguments, result and
              \* the tables before it
  log,        \* every _persist_event call so far: crawler, record, and the
              \* primary keys of the Offer written and of the Location the
              \* record resolved to (0 for none)
  runs,       \* number of runs started
  sessions,   \* the database sessions of runs going on side by side: what
              \* each has flushed and how its run ended
  site,       \* the web site a fetch() reads: crawler, listing pages, what
              \* comes after the last page, detail pages that fail
  fpc,        \* where fetch() is: idle, listing, cards, done, raised
  page,       \* fetch(): page
  items,      \* fetch(): the cards of the current page not yet looked at
  seen,       \* fetch(): seen
  new_items,  \* fetch(): new_items
  requested,  \* the listing pages fetch() has requested, in order
  yielded,    \* the records fetch() has yielded, in order
  settings,   \* Settings as geocode_address reads it
  geo,        \* geocode_address in progress: query, providers still to
              \* try, the provider calls made, the result
  orch,       \* run_slug in progress: its locals and the stage calls made
  files,      \* the report directory: path |-> document
  now,        \* the clock: the current second, and the instant (readings
              \* of the clock are told apart below the second)
  writes,     \* every write_report that wrote a file: path and document
  batch,      \* run_all in progress: slugs, slugs still to run, summary
  task        \* the Celery task: its arguments, state and attempts

crawlVars == <<db, committed, run, returned, last, log, runs, sessions>>

fetchVars == <<site, fpc, page, items, seen, new_items, requested, yielded>>

geoVars == <<settings, geo>>

workVars == <<orch, files, now, writes, batch, task>>

serviceVars == <<geoVars, workVars>>

vars == <<crawlVars, fetchVars, serviceVars>>

Idle == [active |-> FALSE, crawler |-> 1, feed |-> <<>>, fetched |-> <<>>,
         created |-> 0, updated |-> 0]

NoCall == [op |-> "none", crawler |-> 1, record |-> 1, status |-> "",
           offer |-> 0, pre |-> EmptyDb]

\* the sequences of records a fetch() of crawler c can yield: its seen-set
\* lets no detail URL through twice in one run
Feeds(c) ==
  {f \in UNION {[1..n -> PagesOf[c]] : n \in 1..MaxFeed} :
     \A i, j \in DOMAIN f :
       Catalogue[f[i]].source_url = Catalogue[f[j]].source_url => i = j}

\* no fetch() is set up
NoSite == [crawler |-> 1, pages |-> <<>>, tail |-> "empty", broken |-> {}]

FetchIdle ==
  /\ site = NoSite
  /\ fpc = "idle"
  /\ page = 0
  /\ items = <<>>
  /\ seen = {}
  /\ new_items = 0
  /\ requested = <<>>
  /\ yielded = <<>>

\* Settings without the three geocoding entries: the defaults apply
DefaultSettings ==
  [ENRICH_GEOCODE |-> None, GEOCODER |-> None,
   GEOCODER_ALLOW_FALLBACK |-> None]

NoGeocoding ==
  [pc |-> "idle", query |-> "", try_order |-> <<>>, calls |-> <<>>,
   result |-> None]

GeoIdle ==
  /\ settings = DefaultSettings
  /\ geo = NoGeocoding

\* no run_slug is in progress
NoRun ==
  [pc |-> "idle", slug |-> "", limit |-> None, listing |-> <<>>,
   urls |-> <<>>, extracted |-> None, normalized |-> None,
   enriched |-> None, stats |-> None, trace |-> <<>>, report |-> None]

NoFiles == <<>>

\* summary = {...} at the start of run_all
summary_at(timestamp) ==
  [total_found |-> 0, total_processed |-> 0, inserted |-> 0, updated |-> 0,
   skipped |-> 0, errors |-> 0, by_slug |-> <<>>, timestamp |-> timestamp,
   report_path |-> None]

\* no run_all is in progress
NoBatch ==
  [pc |-> "idle", slugs |-> <<>>, todo |-> <<>>, limit |-> None,
   summary |-> summary_at([second |-> 0, instant |-> 0]),
   outcomes |-> <<>>, write_raised |-> FALSE]

\* no task has been sent
NoTask ==
  [state |-> "none", name |-> "", slug |-> "", slugs |-> <<>>,
   limit |-> None, retries |-> 0, executions |-> 0, outcomes |-> <<>>,
   acks |-> <<>>, lost |-> 0]

WorkIdle ==
  /\ batch = NoBatch
  /\ task = NoTask
  /\ orch = NoRun
  /\ files = NoFiles
  /\ now = [second |-> 0, instant |-> 0]
  /\ writes = <<>>

\* the runs that may go on side by side, each with its own db.session
Sessions == {1, 2}

\* a session that has not begun
NoSession == [pc |-> "idle", crawler |-> 0, record |-> 0,
              base |-> EmptyDb, view |-> EmptyDb]

NoSessions == [r \in Sessions |-> NoSession]

Init ==
  /\ db = EmptyDb
  /\ committed = EmptyDb
  /\ run = Idle
  /\ returned = <<>>
  /\ last = NoCall
  /\ log = {}
  /\ runs = 0
  /\ sessions = NoSessions
  /\ FetchIdle
  /\ GeoIdle
  /\ WorkIdle

\* run(): created = 0; updated = 0; the generator self.fetch() is set up
StartRun(c, feed) ==
  /\ ~run.active
  /\ runs < MaxRuns
  /\ run' = [active |-> TRUE, crawler |-> c, feed |-> feed, fetched |-> feed,
             created |-> 0, updated |-> 0]
  /\ runs' = runs + 1
  /\ UNCHANGED <<db, committed, returned, last, log, sessions, fetchVars,
                 serviceVars>>

\* one turn of the loop of run(): the next record is persisted and counted
PersistNext ==
  /\ run.active
  /\ run.feed # <<>>
  /\ LET r == Head(run.feed)
         res == _persist_event(db, run.crawler, Catalogue[r])
     IN /\ db' = res.db
        /\ run' = [run EXCEPT
                     !.feed = Tail(@),
                     !.created = IF res.status = "created" THEN @ + 1 ELSE @,
                     !.updated = IF res.status = "updated" THEN @ + 1 ELSE @]
        /\ last' = [op |-> "persist", crawler |-> run.crawler, record |-> r,
                    status |-> res.status, offer |-> res.id, pre |-> db]
        /\ log' = log \cup {[crawler |-> run.crawler, record |-> r,
                              offer |-> res.id,
                              location |-> res.location]}
  /\ UNCHANGED <<committed, returned, runs, sessions, fetchVars, serviceVars>>

\* the end of run(): commit and return the counters
FinishRun ==
  /\ run.active
  /\ run.feed = <<>>
  /\ committed' = db
  /\ returned' =
       LET this == [crawler |-> run.crawler, fetched |-> run.fetched,
                    created |-> run.created, updated |-> run.updated,
                    offers |-> Len(db.offers), locations |-> Len(db.locations),
                    categories |-> Len(db.categories)]
       IN IF returned = <<>> THEN <<this>>
          ELSE <<returned[Len(returned)], this>>
  /\ run' = Idle
  /\ UNCHANGED <<db, last, log, runs, sessions, fetchVars, serviceVars>>

Next ==
  \/ \E c \in Crawlers : \E feed \in Feeds(c) : StartRun(c, feed)
  \/ PersistNext
  \/ FinishRun

Spec == Init /\ [][Next]_vars

(* ---------------------------------------------------------------------- *)
(* Properties                                                              *)
(* ---------------------------------------------------------------------- *)
LastRecord == Catalogue[last.record]

Persisted == last.op = "persist"

\* the identity the specification gives the pair (source slug, local id)
Identity(c, r) == CRAWLERS[c].source_slug \o <<":">> \o Catalogue[r].external_id

\* the rows of a table of offers that carry the identity of (c, r)
OffersOf(offers, c, r) ==
  {i \in DOMAIN offers : offers[i].external_id = Identity(c, r)}

\* (source slug, source-local id) pairs upserted so far
Upserted == {<<e.crawler, Catalogue[e.record].external_id>> : e \in log}

\* C1: after any sequence of runs the store holds exactly one Offer for each
\* (source slug, source-local id) pair ever upserted and no other Offer, that
\* Offer's external_id is "{source_slug}:{source_local_id}", every call for
\* the pair wrote the same row, rows keep their identity, and a call for a
\* pair that already had an Offer adds no row.
C1_OneOfferPerPair ==
  /\ \A e \in log :
       /\ Cardinality(OffersOf(db.offers, e.crawler, e.record)) = 1
       /\ OffersOf(db.offers, e.crawler, e.record) = {e.offer}
       /\ db.offers[e.offer].source = CRAWLERS[e.crawler].source_slug
  /\ Len(db.offers) = Cardinality(Upserted)
  /\ Persisted =>
       /\ \A i \in DOMAIN last.pre.offers :
            db.offers[i].external_id = last.pre.offers[i].external_id
       /\ OffersOf(last.pre.offers, last.crawler, last.record) # {} =>
            Len(db.offers) = Len(last.pre.offers)

\* a pair is upserted again in a later run, next to another pair's Offer
C1_Witness ==
  /\ Persisted /\ last.status = "updated" /\ runs >= 2
  /\ Len(db.offers) >= 2
  /\ \E e \in log : e.record # last.record /\ e.crawler = last.crawler
                    /\ e.offer = last.offer

SameData(a, b) == a.crawler = b.crawler /\ a.fetched = b.fetched

\* C2: when a run of a source is followed by a run of the same source over
\* identical source data, the second run returns created = 0 and updated =
\* the number of records, and the numbers of Offer, Location and Category
\* rows are those after the first run.
C2_SecondRunIdempotent ==
  (Len(returned) = 2 /\ SameData(returned[1], returned[2])) =>
    /\ returned[2].created = 0
    /\ returned[2].updated = Len(returned[2].fetched)
    /\ returned[2].offers = returned[1].offers
    /\ returned[2].locations = returned[1].locations
    /\ returned[2].categories = returned[1].categories

\* the same two records were crawled twice in a row, creating rows the first time
C2_Witness ==
  /\ Len(returned) = 2 /\ SameData(returned[1], returned[2])
  /\ Len(returned[2].fetched) = 2
  /\ returned[1].created = 2
  /\ returned[2].locations >= 1 /\ returned[2].categories >= 1

Range(f) == {f[i] : i \in DOMAIN f}

\* the Offer row the last call wrote
LastOffer == db.offers[last.offer]

\* did the Offer of the last call exist before the call
LastExisted == last.offer \in DOMAIN last.pre.offers

Aachen == <<"A","a","c","h","e","n">>

Other == <<"O","t","h","e","r">>

Hauptstrasse1 == <<"H","a","u","p","t","s","t","r","a","ß","e"," ","1">>

\* C3: the rows of the locations table keep every non-null field; and given
\* an existing Location with city "Aachen" and address null, upserting a
\* record for that place with city "Other" and address "Hauptstraße 1"
\* leaves its city unchanged and sets its address.
C3_MergeExample ==
  Persisted =>
    \A i \in DOMAIN last.pre.locations :
      LET old == last.pre.locations[i]
          new == db.locations[i]
      IN /\ old.name # None => new.name = old.name
         /\ old.address # None => new.address = old.address
         /\ old.city # None => new.city = old.city
         /\ ( /\ old.name = LastRecord.location_name
              /\ old.city = Some(Aachen) /\ old.address = None
              /\ LastRecord.location_city = Some(Other)
              /\ LastRecord.location_address = Some(Hauptstrasse1) )
            => (new.city = Some(Aachen) /\ new.address = Some(Hauptstrasse1))

\* the location fields of two records are equal up to letter case
SameLocationIgnoringCase(p, q) ==
  /\ Lower(StrOrEmpty(p.location_name)) = Lower(StrOrEmpty(q.location_name))
  /\ Lower(StrOrEmpty(p.location_address)) = Lower(StrOrEmpty(q.location_address))
  /\ Lower(StrOrEmpty(p.location_city)) = Lower(StrOrEmpty(q.location_city))

\* C4: no two Location rows share a fingerprint; the row a record resolved to
\* carries the hash of the lowercased "|"-concatenation of the record's name,
\* address and city; and records whose location fields differ only in letter
\* case resolved to the same row.
C4_OneLocationPerFingerprint ==
  /\ \A i, j \in DOMAIN db.locations :
       db.locations[i].fingerprint = db.locations[j].fingerprint => i = j
  /\ \A e \in log : e.location # 0 =>
       LET p == Catalogue[e.record]
       IN db.locations[e.location].fingerprint =
            [sha256 |-> Lower(StrOrEmpty(p.location_name) \o <<"|">>
                              \o StrOrEmpty(p.location_address) \o <<"|">>
                              \o StrOrEmpty(p.location_city))]
  /\ \A e1, e2 \in log :
       ( /\ e1.location # 0 /\ e2.location # 0
         /\ SameLocationIgnoringCase(Catalogue[e1.record], Catalogue[e2.record]) )
       => e1.location = e2.location

\* two records written "Markt"/"Aachen" and "MARKT"/"AACHEN" share one row
C4_Witness ==
  \E e1, e2 \in log :
    /\ e1.location # 0 /\ e1.location = e2.location
    /\ Catalogue[e1.record].location_name # Catalogue[e2.record].location_name
    /\ Len(db.locations) >= 2

Oeffentlich == <<"Ö","f","f","e","n","t","l","i","c","h">>

offentlich == <<"o","f","f","e","n","t","l","i","c","h">>

\* C5: the labels "Öffentlich" and "offentlich" both normalize to the slug
\* "offentlich", and once records carrying the two labels have been upserted
\* there is exactly one Category row for both.
C5_SlugStability ==
  ( /\ \E e \in log : Oeffentlich \in Range(Catalogue[e.record].categories)
    /\ \E e \in log : offentlich \in Range(Catalogue[e.record].categories) )
  => /\ slugify(Oeffentlich) = offentlich
     /\ slugify(offentlich) = offentlich
     /\ Cardinality({i \in DOMAIN db.categories :
                       db.categories[i].name \in {Oeffentlich, offentlich}}) = 1

\* C6: no two Category rows share a slug; a call leaves every existing
\* Category row as it was (slug and display name); and every label of the
\* record has exactly one row with its slug, which is the one that existed
\* before the call if there was one, and which the Offer is attached to.
C6_SlugIdentifiesCategory ==
  /\ \A i, j \in DOMAIN db.categories :
       db.categories[i].slug = db.categories[j].slug => i = j
  /\ Persisted =>
       /\ \A i \in DOMAIN last.pre.categories :
            db.categories[i] = last.pre.categories[i]
       /\ \A label \in Range(LastRecord.categories) : label # <<>> =>
            LET rows == {i \in DOMAIN db.categories :
                           db.categories[i].slug = slugify(label)}
                before == {i \in DOMAIN last.pre.categories :
                             last.pre.categories[i].slug = slugify(label)}
            IN /\ Cardinality(rows) = 1
               /\ before # {} => rows = before
               /\ rows \subseteq Range(LastOffer.categories)

\* a label ("Kids") reuses the row another display name ("kids!") created
C6_Witness ==
  /\ Persisted
  /\ \E label \in Range(LastRecord.categories) :
       \E i \in DOMAIN last.pre.categories :
         /\ last.pre.categories[i].slug = slugify(label)
         /\ last.pre.categories[i].name # Strip(label)
         /\ i \in Range(LastOffer.categories)

\* the Category rows the labels of a record name
CategoriesOfLabels(p) ==
  {i \in DOMAIN db.categories :
     \E label \in Range(p.categories) :
       label # <<>> /\ db.categories[i].slug = slugify(label)}

\* C7: after every upsert the Offer's categories are exactly the Categories
\* of the record's labels, also when the record has no labels.
C7_CategoriesReplaced ==
  Persisted => Range(LastOffer.categories) = CategoriesOfLabels(LastRecord)

\* the value a column of the Offer had before the last call (None when new)
Before(column) == IF LastExisted THEN last.pre.offers[last.offer][column] ELSE None

\* C8 as claimed: after every upsert title, description, summary, start and
\* end timestamps and the free and outdoor flags hold the record's values
\* whatever the Offer held before; the image is replaced only when the record
\* carries one.  (The summary is compared only for records that carry one the
\* column can hold.)
C8_OverwriteAll ==
  Persisted =>
    /\ LastOffer.title = LastRecord.title
    /\ LastOffer.description = Some(LastRecord.description)
    /\ (LastRecord.summary # None /\ LastRecord.summary[1].len \in 1..400)
         => LastOffer.summary = LastRecord.summary
    /\ LastOffer.dt_start = LastRecord.dt_start
    /\ LastOffer.dt_end = LastRecord.dt_end
    /\ LastOffer.is_free = LastRecord.is_free
    /\ LastOffer.is_outdoor = LastRecord.is_outdoor
    /\ LastOffer.image = IF LastRecord.image_url # None THEN LastRecord.image_url
                         ELSE Before("image")

\* C8 amended: after every upsert title, description, source URL and start
\* and end timestamps hold the record's values whatever the Offer held; the
\* summary is the record's summary cut to 400 characters, or without one the
\* first 380 characters of the description, or when that is empty too the
\* first 400 characters of the price text; the free flag, the outdoor flag
\* and the image are replaced only when the record carries one.
C8_OverwriteAmended ==
  Persisted =>
    /\ LastOffer.title = LastRecord.title
    /\ LastOffer.description = Some(LastRecord.description)
    /\ LastOffer.source_url = LastRecord.source_url
    /\ LastOffer.dt_start = LastRecord.dt_start
    /\ LastOffer.dt_end = LastRecord.dt_end
    /\ LET s == LastRecord.summary
           d == LastRecord.description
           pt == LastRecord.price_text
           hasS == s # None /\ s[1].len > 0
           hasP == pt # None /\ pt[1].len > 0
           stored == LastOffer.summary[1]
       IN /\ LastOffer.summary # None
          /\ hasS => stored = [id |-> s[1].id, len |-> Min(s[1].len, 400)]
          /\ (~hasS /\ d.len > 0) => stored = [id |-> d.id, len |-> Min(d.len, 380)]
          /\ (~hasS /\ d.len = 0 /\ hasP) =>
               stored = [id |-> pt[1].id, len |-> Min(pt[1].len, 400)]
          /\ (~hasS /\ d.len = 0 /\ ~hasP) => stored.len = 0
    /\ LastOffer.is_free = IF LastRecord.is_free # None THEN LastRecord.is_free
                           ELSE Before("is_free")
    /\ LastOffer.is_outdoor = IF LastRecord.is_outdoor # None
                              THEN LastRecord.is_outdoor ELSE Before("is_outdoor")
    /\ LastOffer.image = IF LastRecord.image_url # None THEN LastRecord.image_url
                         ELSE Before("image")

\* an Offer that was free and had an image is rewritten by a record that
\* carries neither: title and timestamps change, flag and image stay
C8_Witness ==
  /\ Persisted /\ LastExisted
  /\ LastRecord.is_free = None /\ LastRecord.image_url = None
  /\ Before("is_free") = Some(TRUE) /\ Before("image") # None
  /\ Before("title") # LastRecord.title
  /\ LastOffer.is_free = Some(TRUE)

\* C9: the call returns "created" exactly when no Offer with the record's
\* identity existed before it and "updated" otherwise; the counters of a run
\* sum to the number of records taken from the extractor so far, and the
\* returned counters sum to the number of records it yielded.
C9_StatusAndCounts ==
  /\ Persisted =>
       /\ last.status \in {"created", "updated"}
       /\ last.status = "created" <=>
            OffersOf(last.pre.offers, last.crawler, last.record) = {}
  /\ run.active => run.created + run.updated = Len(run.fetched) - Len(run.feed)
  /\ \A k \in DOMAIN returned :
       returned[k].created + returned[k].updated = Len(returned[k].fetched)

\* a finished run that created one Offer and updated another
C9_Witness ==
  \E k \in DOMAIN returned : returned[k].created = 1 /\ returned[k].updated = 1

\* C10: records of two different registered sources never wrote the same
\* Offer, even with equal source-local ids: the registered slugs are distinct
\* and contain no ":", and distinct (slug, local id) pairs have distinct
\* external identities.
C10_NoCrossSourceDedup ==
  /\ \A e1, e2 \in log : e1.crawler # e2.crawler => e1.offer # e2.offer
  /\ \A e1, e2 \in log :
       (db.offers[e1.offer].external_id = db.offers[e2.offer].external_id)
         => /\ e1.crawler = e2.crawler
            /\ Catalogue[e1.record].external_id = Catalogue[e2.record].external_id
  /\ \A c1, c2 \in Crawlers :
       /\ ":" \notin Range(CRAWLERS[c1].source_slug)
       /\ CRAWLERS[c1].source_slug = CRAWLERS[c2].source_slug => c1 = c2

\* the id "42" was upserted from all three sources: three Offers
C10_Witness ==
  /\ \E e1, e2, e3 \in log :
       /\ e1.crawler = 1 /\ e2.crawler = 2 /\ e3.crawler = 3
       /\ Catalogue[e1.record].external_id = Catalogue[e2.record].external_id
       /\ Catalogue[e2.record].external_id = Catalogue[e3.record].external_id
  /\ Len(db.offers) >= 3

(* ---------------------------------------------------------------------- *)
(* fetch(): the pagination loop of the three extractors                    *)
(*   apps/api/lottina_api/crawlers/aachen_family.py  fetch                 *)
(*   apps/api/lottina_api/crawlers/gruen_metropole.py fetch                *)
(*   apps/api/lottina_api/crawlers/rur_eifel.py       fetch                *)
(* A listing page is a sequence of cards; a card is the Catalogue index of *)
(* the detail page it links to, or NoLink for a card without a link.       *)
(* ---------------------------------------------------------------------- *)
MaxPages == 3

NoLink == 0

\* the listing pages a site of crawler c is made of
ListingPages ==
  << { <<1>>, <<3>>, <<1, 3>>, <<NoLink, 3>>, <<2>> },
     { <<4>>, <<5>>, <<4, 5>>, <<NoLink, 5>> },
     { <<6>>, <<7>>, <<6, 7>>, <<NoLink, 7>> } >>

\* urljoin(self.listing_url, link["href"])
detail_url(card) == Catalogue[card].source_url

DetailUrls(c) == {detail_url(r) : r \in PagesOf[c]}

\* the sites fetch() is run against: some listing pages, then either empty
\* pages or the last page again for every further page number; some detail
\* pages answer with an error
SitesOf(c) ==
  {[crawler |-> c, pages |-> ps, tail |-> t, broken |-> b] :
     ps \in UNION {[1..n -> ListingPages[c]] : n \in 1..MaxPages},
     t \in {"empty", "repeat"},
     b \in SUBSET DetailUrls(c)}

Sites == UNION {SitesOf(c) : c \in Crawlers}

\* soup.select(...) on the listing page number n of site s
PageAt(s, n) ==
  IF n <= Len(s.pages) THEN s.pages[n]
  ELSE IF s.tail = "repeat" THEN s.pages[Len(s.pages)]
  ELSE <<>>

\* the loop of fetch() is left without a guard on the page number; the
\* model stops following it here, beyond every page the code asks for
PageCap == MaxPages + 2

no_stop_on_repeat(n) == FALSE

\* if new_items == 0: break
stops(n) == n = 0

\* the test that lets every link through
never_seen(url, s) == FALSE

\* if detail_url in seen: continue
is_seen(url, s) == url \in s

\* run() calls self.fetch(): page = 1; seen = set()
FetchBegin(s) ==
  /\ fpc = "idle"
  /\ site' = s
  /\ fpc' = "listing"
  /\ page' = 1
  /\ seen' = {}
  /\ UNCHANGED <<crawlVars, items, new_items, requested, yielded, serviceVars>>

\* soup = self._get_soup(paged_url); items = soup.select(...);
\* if not items: break; new_items = 0
FetchListing ==
  /\ fpc = "listing"
  /\ page <= PageCap
  /\ requested' = Append(requested, page)
  /\ LET its == PageAt(site, page)
     IN IF its = <<>>
        THEN /\ fpc' = "done"
             /\ UNCHANGED <<items, new_items>>
        ELSE /\ fpc' = "cards"
             /\ items' = its
             /\ new_items' = 0
  /\ UNCHANGED <<crawlVars, site, page, seen, yielded, serviceVars>>

\* one turn of "for item in items", and for a yielded record the turn of
\* the loop of run() that consumes it
FetchCard ==
  /\ fpc = "cards"
  /\ items # <<>>
  /\ LET card == Head(items)
     IN IF card = NoLink \/ is_seen(detail_url(card), seen)
        THEN /\ items' = Tail(items)
             /\ UNCHANGED <<fpc, seen, new_items, yielded, db, last, log>>
        ELSE /\ seen' = seen \cup {detail_url(card)}
             /\ new_items' = new_items + 1
             /\ IF detail_url(card) \in site.broken
                THEN \* _get_soup raises in _parse_detail: nothing catches
                     \* it in fetch() nor in run()
                     /\ fpc' = "raised"
                     /\ UNCHANGED <<items, yielded, db, last, log>>
                ELSE LET res == _persist_event(db, site.crawler,
                                               Catalogue[card])
                     IN /\ items' = Tail(items)
                        /\ yielded' = Append(yielded, card)
                        /\ db' = res.db
                        /\ last' = [op |-> "persist",
                                    crawler |-> site.crawler,
                                    record |-> card, status |-> res.status,
                                    offer |-> res.id, pre |-> db]
                        /\ log' = log \cup
                                    {[crawler |-> site.crawler,
                                      record |-> card, offer |-> res.id,
                                      location |-> res.location]}
                        /\ UNCHANGED fpc
  /\ UNCHANGED <<committed, run, returned, runs, sessions, site, page,
                 requested, serviceVars>>

\* if new_items == 0: break; page += 1
FetchEndPage ==
  /\ fpc = "cards"
  /\ items = <<>>
  /\ IF stops(new_items)
     THEN fpc' = "done" /\ UNCHANGED page
     ELSE fpc' = "listing" /\ page' = page + 1
  /\ UNCHANGED <<crawlVars, site, items, seen, new_items, requested, yielded,
                 serviceVars>>

\* run() after the loop: db.session.commit() and return
FetchCommit ==
  /\ fpc = "done"
  /\ fpc' = "returned"
  /\ committed' = db
  /\ UNCHANGED <<db, run, returned, last, log, runs, sessions, site, page,
                 items, seen, new_items, requested, yielded, serviceVars>>

FetchNext ==
  \/ \E s \in Sites : FetchBegin(s)
  \/ FetchListing
  \/ FetchCard
  \/ FetchEndPage
  \/ FetchCommit

FetchSpec == Init /\ [][FetchNext]_vars

(* ---------------------------------------------------------------------- *)
(* Properties of fetch()                                                   *)
(* ---------------------------------------------------------------------- *)
LinksOn(n) ==
  {detail_url(card) : card \in Range(PageAt(site, n)) \ {NoLink}}

\* the detail links of listing page n that no earlier page carries
NewOn(n) == LinksOn(n) \ UNION {LinksOn(m) : m \in 1..(n - 1)}

FetchEnded == fpc \in {"done", "returned", "raised"}

\* C11: fetch() terminates once a listing page has no items or no detail
\* link that was not seen before: pages are requested in order 1, 2, ...,
\* page n + 1 only after page n had items and at least one new link, so a
\* site of k pages followed by empty pages or by its last page for ever is
\* asked for at most k + 1 pages, the loop never reaches the point where
\* the model stops following it, and every step before the end has a
\* successor. A site of three pages whose page 3 repeats page 2 is asked
\* for page 3 and never for page 4.
C11_FetchTerminates ==
  /\ \A i \in DOMAIN requested : requested[i] = i
  /\ \A i \in DOMAIN requested :
       i > 1 => PageAt(site, i - 1) # <<>> /\ NewOn(i - 1) # {}
  /\ Len(requested) <= Len(site.pages) + 1
  /\ page <= Len(site.pages) + 1
  /\ page < PageCap
  /\ fpc = "cards" => Len(items) <= Len(PageAt(site, page))

C11_Witness ==
  /\ fpc = "returned"
  /\ site.tail = "repeat"
  /\ Len(site.pages) = 3
  /\ site.pages[3] = site.pages[2]
  /\ site.pages[2] # site.pages[1]
  /\ requested = <<1, 2, 3>>

\* C12: a detail page that fails to fetch or parse is skipped and the source
\* goes on: fetch() is not left by the error, and when it has ended every
\* other detail page linked from the listing pages it requested has been
\* yielded and upserted.
C12_FailedDetailSkipped ==
  /\ fpc # "raised"
  /\ FetchEnded =>
       \A n \in Range(requested) :
         \A url \in LinksOn(n) \ site.broken :
           \E e \in log : Catalogue[e.record].source_url = url

(* ---------------------------------------------------------------------- *)
(* geocode_address: apps/worker/utils/geocoding.py                         *)
(* A provider call raises, finds nothing (None) or returns a hit.          *)
(* ---------------------------------------------------------------------- *)
nominatim == <<"n","o","m","i","n","a","t","i","m">>

photon == <<"p","h","o","t","o","n">>

\* Settings.__dict__.get(key, default)
get(entry, default) == IF IsNone(entry) THEN default ELSE entry[1]

\* the values the three settings are given
GeocoderSettings ==
  [ENRICH_GEOCODE : {None, Some(TRUE), Some(FALSE)},
   GEOCODER : {None, Some(<<>>), Some(nominatim), Some(photon),
               Some(<<"N","O","M","I","N","A","T","I","M">>),
               Some(<<"k","o","m","o","o","t">>)},
   GEOCODER_ALLOW_FALLBACK : {None, Some(TRUE), Some(FALSE)}]

Queries == {"", "Markt, Aachen"}

Outcomes == {"raise", "none", "hit"}

\* (Settings.__dict__.get("GEOCODER") or "nominatim").lower()
preferred_of(st) ==
  LET g == get(st.GEOCODER, <<>>)
  IN Lower(IF g = <<>> THEN nominatim ELSE g)

\* Settings.__dict__.get("GEOCODER_ALLOW_FALLBACK", True)
use_photon_of(st) == get(st.GEOCODER_ALLOW_FALLBACK, TRUE)

\* try_order as built from preferred and use_photon
try_order_of(st) ==
  IF preferred_of(st) = nominatim
  THEN IF use_photon_of(st) THEN <<"_nominatim", "_photon">>
       ELSE <<"_nominatim">>
  ELSE IF preferred_of(st) = photon
  THEN IF use_photon_of(st) THEN <<"_photon", "_nominatim">>
       ELSE <<"_photon">>
  ELSE <<"_nominatim", "_photon">>

\* the test that never returns early
geocoding_off_never(st, query) == FALSE

\* if not query or not Settings.__dict__.get("ENRICH_GEOCODE", True)
geocoding_off(st, query) == query = "" \/ ~get(st.ENRICH_GEOCODE, TRUE)

caught_never(outcome) == FALSE

\* except Exception: continue
caught(outcome) == outcome = "raise"

\* geocode_address(query) is called under some settings
GeoCall(st, query) ==
  /\ geo.pc = "idle"
  /\ settings' = st
  /\ geo' =
       IF geocoding_off(st, query)
       THEN [pc |-> "returned", query |-> query, try_order |-> <<>>,
             calls |-> <<>>, result |-> None]
       ELSE [pc |-> "trying", query |-> query,
             try_order |-> try_order_of(st), calls |-> <<>>,
             result |-> None]
  /\ UNCHANGED <<crawlVars, fetchVars, workVars>>

\* one turn of "for fn in try_order": res = fn(query)
GeoTry(outcome) ==
  /\ geo.pc = "trying"
  /\ geo.try_order # <<>>
  /\ LET fn == Head(geo.try_order)
         call == [provider |-> fn, query |-> geo.query, outcome |-> outcome]
     IN geo' =
          [geo EXCEPT
             !.calls = Append(@, call),
             !.try_order = Tail(@),
             !.pc = IF outcome = "hit" THEN "returned"
                    ELSE IF outcome = "none" \/ caught(outcome) THEN "trying"
                    ELSE "raised",
             !.result = IF outcome = "hit"
                        THEN Some([provider |-> fn, query |-> geo.query])
                        ELSE @]
  /\ UNCHANGED <<crawlVars, fetchVars, workVars, settings>>

\* the loop is over: return None
GeoExhausted ==
  /\ geo.pc = "trying"
  /\ geo.try_order = <<>>
  /\ geo' = [geo EXCEPT !.pc = "returned", !.result = None]
  /\ UNCHANGED <<crawlVars, fetchVars, workVars, settings>>

GeoNext ==
  \/ \E st \in GeocoderSettings : \E q \in Queries : GeoCall(st, q)
  \/ \E outcome \in Outcomes : GeoTry(outcome)
  \/ GeoExhausted

GeoSpec == Init /\ [][GeoNext]_vars

(* ---------------------------------------------------------------------- *)
(* Properties of geocode_address                                           *)
(* ---------------------------------------------------------------------- *)
GeoReturned == geo.pc = "returned"

FallbackEnabled ==
  settings.GEOCODER_ALLOW_FALLBACK \in {None, Some(TRUE)}

GeocodingDisabled == settings.ENRICH_GEOCODE = Some(FALSE)

NoProviderHit == \A i \in DOMAIN geo.calls : geo.calls[i].outcome # "hit"

\* the provider the GEOCODER setting names, nominatim when it names none
ConfiguredPrimary ==
  IF Lower(get(settings.GEOCODER, <<>>)) = photon THEN "_photon"
  ELSE "_nominatim"

ProviderRecognised ==
  Lower(get(settings.GEOCODER, <<>>)) \in {<<>>, nominatim, photon}

\* C13: geocoding tries, falls back, then gives None: with the fallback
\* allowed, a primary provider that raised is followed by a call of the
\* other provider with the same query; when every provider tried failed
\* (raised or found nothing), or geocoding is disabled, or the query is
\* empty, the result is None; geocode_address never raises.
C13_FallbackThenNone ==
  /\ geo.pc # "raised"
  /\ \A i \in DOMAIN geo.calls : geo.calls[i].query = geo.query
  /\ (GeoReturned /\ FallbackEnabled /\ geo.calls # <<>>
        /\ geo.calls[1].outcome = "raise") =>
       /\ Len(geo.calls) = 2
       /\ geo.calls[2].provider # geo.calls[1].provider
       /\ geo.calls[2].query = geo.calls[1].query
  /\ (GeoReturned /\ NoProviderHit) => geo.result = None
  /\ (GeoReturned /\ (GeocodingDisabled \/ geo.query = "")) =>
       geo.result = None /\ geo.calls = <<>>

C13_Witness ==
  /\ GeoReturned
  /\ FallbackEnabled
  /\ Len(geo.calls) = 2
  /\ geo.calls[1] = [provider |-> "_photon", query |-> "Markt, Aachen",
                     outcome |-> "raise"]
  /\ geo.calls[2] = [provider |-> "_nominatim", query |-> "Markt, Aachen",
                     outcome |-> "raise"]
  /\ geo.result = None

\* C14: the secondary provider is tried only if the fallback is configured:
\* with the fallback toggle off a call invokes at most one provider, the
\* configured primary, whatever the provider setting is; with it on the
\* configured primary is tried before the other provider.
C14_SecondaryOnlyIfFallback ==
  /\ ~FallbackEnabled =>
       /\ Len(geo.calls) <= 1
       /\ \A i \in DOMAIN geo.calls : geo.calls[i].provider = ConfiguredPrimary
  /\ (FallbackEnabled /\ ProviderRecognised /\ geo.calls # <<>>) =>
       geo.calls[1].provider = ConfiguredPrimary

\* how many providers the settings put in the order of trial
ProvidersConfigured == IF FallbackEnabled \/ ~ProviderRecognised THEN 2 ELSE 1

\* C30: geocode_address tries the providers in the configured order, each at
\* most once, and returns the first non-empty result: a provider that finds
\* nothing is followed by the next one like a provider that failed, no
\* provider is called after one returned a result, and none is called when
\* the query is empty or geocoding is disabled.
C30_FirstHitInOrder ==
  /\ geo.calls # <<>> => geo.calls[1].provider = ConfiguredPrimary
  /\ \A i, j \in DOMAIN geo.calls :
       geo.calls[i].provider = geo.calls[j].provider => i = j
  /\ \A i \in DOMAIN geo.calls :
       i < Len(geo.calls) => geo.calls[i].outcome \in {"none", "raise"}
  /\ (GeoReturned /\ ~NoProviderHit) =>
       /\ geo.calls[Len(geo.calls)].outcome = "hit"
       /\ geo.result = Some([provider |-> geo.calls[Len(geo.calls)].provider,
                             query |-> geo.query])
  /\ (GeoReturned /\ NoProviderHit /\ geo.query # ""
        /\ ~GeocodingDisabled) =>
       Len(geo.calls) = ProvidersConfigured
  /\ (geo.pc # "idle" /\ (geo.query = "" \/ GeocodingDisabled)) =>
       geo.calls = <<>>

\* the primary provider found nothing, the other one was tried next and its
\* hit is the result
C30_Witness ==
  /\ GeoReturned
  /\ Len(geo.calls) = 2
  /\ geo.calls[1] = [provider |-> "_nominatim", query |-> "Markt, Aachen",
                     outcome |-> "none"]
  /\ geo.calls[2] = [provider |-> "_photon", query |-> "Markt, Aachen",
                     outcome |-> "hit"]
  /\ geo.result = Some([provider |-> "_photon", query |-> "Markt, Aachen"])

(* ---------------------------------------------------------------------- *)
(* run_slug and write_report: apps/worker/worker.py                        *)
(* The five stage functions are calls out of this file: a call returns a   *)
(* value or raises. What extract_details, normalize_rows and enrich_rows   *)
(* return is a value that names the stage and the argument it was given.   *)
(* ---------------------------------------------------------------------- *)
MaxListing == 2

Slugs == {"aachen-family", "gruenmetropole", "rur-eifel"}

\* what fetch_listing can return: rows with a url each
Listings == {[i \in 1..n |-> [url |-> i]] : n \in 0..MaxListing}

\* the limit argument: None or an int
Limits == {None} \cup {Some(n) : n \in (0 - 1)..(MaxListing + 1)}

\* what upsert_rows can return: a dict, keys may be missing
UpsertStats ==
  { [inserted |-> None, updated |-> None, skipped |-> None,
     errors |-> None, error_samples |-> None],
    [inserted |-> Some(2), updated |-> Some(1), skipped |-> Some(0),
     errors |-> Some(0), error_samples |-> Some(<<>>)],
    [inserted |-> Some(0), updated |-> Some(0), skipped |-> Some(1),
     errors |-> Some(1), error_samples |-> Some(<<"e1">>)],
    [inserted |-> Some(1), updated |-> Some(2), skipped |-> Some(0),
     errors |-> Some(4), error_samples |-> Some(<<"e1", "e2", "e3", "e4">>)] }

Max(a, b) == IF a >= b THEN a ELSE b

\* seq[:n]
slice_to(seq, n) ==
  SubSeq(seq, 1, IF n >= 0 THEN Min(n, Len(seq)) ELSE Max(Len(seq) + n, 0))

\* urls = [r["url"] for r in listing]
urls_of(listing) == [i \in 1..Len(listing) |-> listing[i].url]

\* if limit: urls = urls[:limit]
truncate(urls, limit) ==
  IF IsNone(limit) \/ limit[1] = 0 THEN urls ELSE slice_to(urls, limit[1])

ErrorSampleLimit == 3

\* the report whose errors is the number of samples it carries
report_of_counting_samples(slug, listing, urls, stats, timestamp) ==
  [slug |-> slug,
   found |-> Len(listing),
   processed |-> Len(urls),
   inserted |-> get(stats.inserted, 0),
   updated |-> get(stats.updated, 0),
   skipped |-> get(stats.skipped, 0),
   errors |-> Len(slice_to(get(stats.error_samples, <<>>), ErrorSampleLimit)),
   error_samples |-> slice_to(get(stats.error_samples, <<>>),
                              ErrorSampleLimit),
   timestamp |-> timestamp,
   report_path |-> None]

\* the report dict of run_slug
report_of(slug, listing, urls, stats, timestamp) ==
  [slug |-> slug,
   found |-> Len(listing),
   processed |-> Len(urls),
   inserted |-> get(stats.inserted, 0),
   updated |-> get(stats.updated, 0),
   skipped |-> get(stats.skipped, 0),
   errors |-> get(stats.errors, 0),
   error_samples |-> slice_to(get(stats.error_samples, <<>>),
                              ErrorSampleLimit),
   timestamp |-> timestamp,
   report_path |-> None]

\* Path(directory) / f"{slug}-{ts}.json", ts to the second
path_of(slug, second) == [slug |-> slug, ts |-> second]

\* p.write_text(json.dumps(report, ...)): creates or replaces the file
write_text(fs, path, doc) ==
  [k \in DOMAIN fs \cup {path} |-> IF k = path THEN doc ELSE fs[k]]

\* write_report(slug, report): the file is written, or the call raises
write_report(fs, slug, report, second, raises) ==
  IF raises THEN [files |-> fs, path |-> None]
  ELSE [files |-> write_text(fs, path_of(slug, second), report),
        path |-> Some(path_of(slug, second))]

\* run_slug from the report on: the report is built, written, given its
\* report_path and returned
run_slug_end(fs, clock, written, slug, listing, urls, stats, write_raises) ==
  LET instant == clock.instant + 1
      report == report_of(slug, listing, urls, stats,
                          [second |-> clock.second, instant |-> instant])
      w == write_report(fs, slug, report, clock.second, write_raises)
  IN [report |-> [report EXCEPT !.report_path = w.path],
      files |-> w.files,
      now |-> [clock EXCEPT !.instant = instant],
      writes |-> IF write_raises THEN written
                 ELSE Append(written, [path |-> w.path[1], doc |-> report])]

\* a whole run_slug whose five stages return
run_slug(fs, clock, written, slug, limit, listing, stats, write_raises) ==
  run_slug_end(fs, clock, written, slug, listing,
               truncate(urls_of(listing), limit), stats, write_raises)

after_skipping_enrich(stage) ==
  CASE stage = "fetch_listing" -> "extract_details"
    [] stage = "extract_details" -> "normalize_rows"
    [] stage = "normalize_rows" -> "upsert_rows"
    [] stage = "enrich_rows" -> "upsert_rows"
    [] stage = "upsert_rows" -> "report"

\* the statement that follows a stage call in run_slug
after(stage) ==
  CASE stage = "fetch_listing" -> "extract_details"
    [] stage = "extract_details" -> "normalize_rows"
    [] stage = "normalize_rows" -> "enrich_rows"
    [] stage = "enrich_rows" -> "upsert_rows"
    [] stage = "upsert_rows" -> "report"

\* the record of one stage call
Called(stage, input) == [stage |-> stage, input |-> input]

\* a stage function returns a value that names it and its argument
Output(stage, input) == Some([by |-> stage, of |-> input])

\* run_slug(slug, limit) is called
RunSlugBegin(slug, limit) ==
  /\ orch.pc = "idle"
  /\ orch' = [orch EXCEPT !.pc = "fetch_listing", !.slug = slug,
                          !.limit = limit]
  /\ UNCHANGED <<crawlVars, fetchVars, geoVars, files, now, writes, batch,
                 task>>

\* listing = fetch_listing(slug); urls = [...]; if limit: urls = urls[:limit]
StageFetchListing(raises, listing) ==
  /\ orch.pc = "fetch_listing"
  /\ orch' =
       IF raises
       THEN [orch EXCEPT
               !.pc = "raised",
               !.trace = Append(@, Called("fetch_listing", Some(orch.slug)))]
       ELSE [orch EXCEPT
               !.pc = after("fetch_listing"),
               !.trace = Append(@, Called("fetch_listing", Some(orch.slug))),
               !.listing = listing,
               !.urls = truncate(urls_of(listing), orch.limit)]
  /\ UNCHANGED <<crawlVars, fetchVars, geoVars, files, now, writes, batch,
                 task>>

\* extracted = extract_details(slug, urls, limit=None)
StageExtractDetails(raises) ==
  /\ orch.pc = "extract_details"
  /\ orch' =
       [orch EXCEPT
          !.pc = IF raises THEN "raised" ELSE after("extract_details"),
          !.trace = Append(@, Called("extract_details", Some(orch.urls))),
          !.extracted = IF raises THEN @
                        ELSE Output("extract_details", Some(orch.urls))]
  /\ UNCHANGED <<crawlVars, fetchVars, geoVars, files, now, writes, batch,
                 task>>

\* normalized = normalize_rows(slug, extracted)
StageNormalize(raises) ==
  /\ orch.pc = "normalize_rows"
  /\ orch' =
       [orch EXCEPT
          !.pc = IF raises THEN "raised" ELSE after("normalize_rows"),
          !.trace = Append(@, Called("normalize_rows", orch.extracted)),
          !.normalized = IF raises THEN @
                         ELSE Output("normalize_rows", orch.extracted)]
  /\ UNCHANGED <<crawlVars, fetchVars, geoVars, files, now, writes, batch,
                 task>>

\* enriched = enrich_rows(normalized)
StageEnrich(raises) ==
  /\ orch.pc = "enrich_rows"
  /\ orch' =
       [orch EXCEPT
          !.pc = IF raises THEN "raised" ELSE after("enrich_rows"),
          !.trace = Append(@, Called("enrich_rows", orch.normalized)),
          !.enriched = IF raises THEN @
                       ELSE Output("enrich_rows", orch.normalized)]
  /\ UNCHANGED <<crawlVars, fetchVars, geoVars, files, now, writes, batch,
                 task>>

\* stats = upsert_rows(enriched)
StageUpsert(raises, stats) ==
  /\ orch.pc = "upsert_rows"
  /\ orch' =
       [orch EXCEPT
          !.pc = IF raises THEN "raised" ELSE after("upsert_rows"),
          !.trace = Append(@, Called("upsert_rows", orch.enriched)),
          !.stats = IF raises THEN @ ELSE Some(stats)]
  /\ UNCHANGED <<crawlVars, fetchVars, geoVars, files, now, writes, batch,
                 task>>

\* report = {...}; try: p = write_report(slug, report);
\* report["report_path"] = p; except Exception: warning; return report
RunSlugReport(write_raises) ==
  /\ orch.pc = "report"
  /\ LET end == run_slug_end(files, now, writes, orch.slug, orch.listing,
                             orch.urls, orch.stats[1], write_raises)
     IN /\ orch' = [orch EXCEPT !.pc = "returned",
                                !.report = Some(end.report)]
        /\ files' = end.files
        /\ now' = end.now
        /\ writes' = end.writes
  /\ UNCHANGED <<crawlVars, fetchVars, geoVars, batch, task>>

RunSlugNext ==
  \/ \E slug \in Slugs : \E limit \in Limits : RunSlugBegin(slug, limit)
  \/ \E raises \in BOOLEAN : \E listing \in Listings :
       StageFetchListing(raises, listing)
  \/ \E raises \in BOOLEAN : StageExtractDetails(raises)
  \/ \E raises \in BOOLEAN : StageNormalize(raises)
  \/ \E raises \in BOOLEAN : StageEnrich(raises)
  \/ \E raises \in BOOLEAN : \E stats \in UpsertStats :
       StageUpsert(raises, stats)
  \/ \E write_raises \in BOOLEAN : RunSlugReport(write_raises)

RunSlugSpec == Init /\ [][RunSlugNext]_vars

(* ---------------------------------------------------------------------- *)
(* Properties of run_slug                                                  *)
(* ---------------------------------------------------------------------- *)
StageOrder ==
  <<"fetch_listing", "extract_details", "normalize_rows", "enrich_rows",
    "upsert_rows">>

ListingFetched == orch.pc \notin {"idle", "fetch_listing"} /\
                  ~(orch.pc = "raised" /\ Len(orch.trace) = 1)

\* C15: within one run_slug the five stages are called in the order
\* fetch_listing, extract_details, normalize, enrich, upsert, none twice and
\* none skipped; each stage is given what the stage before returned (the
\* URLs of the listing for extract_details); a run that returns has called
\* all five, also for an empty listing, and its report exists only once
\* upsert has returned.
C15_StagesInOrder ==
  /\ Len(orch.trace) <= Len(StageOrder)
  /\ \A i \in DOMAIN orch.trace : orch.trace[i].stage = StageOrder[i]
  /\ Len(orch.trace) >= 2 =>
       /\ orch.trace[2].input = Some(orch.urls)
       /\ \E k \in 0..Len(orch.listing) :
            orch.urls = SubSeq(urls_of(orch.listing), 1, k)
  /\ \A i \in DOMAIN orch.trace :
       i >= 3 => orch.trace[i].input =
                   Output(StageOrder[i - 1], orch.trace[i - 1].input)
  /\ (orch.pc \in {"report", "returned"} \/ orch.report # None) =>
       /\ Len(orch.trace) = Len(StageOrder)
       /\ orch.stats # None
  /\ orch.report # None =>
       /\ orch.pc = "returned"
       /\ orch.report[1].inserted = get(orch.stats[1].inserted, 0)
       /\ orch.report[1].errors = get(orch.stats[1].errors, 0)

C15_Witness ==
  /\ orch.pc = "returned"
  /\ orch.listing = <<>>
  /\ Len(orch.trace) = 5
  /\ orch.report # None

\* C16: a limit given by the caller truncates the URL list before the
\* extraction: extract_details is given the first limit URLs, the report's
\* found is the length of the whole listing and processed the length of
\* the truncated list, so processed = min(limit, found) and
\* processed <= found, for every limit.
C16_LimitTruncates ==
  LET found == Len(orch.listing)
      limit == orch.limit[1]
  IN (orch.limit # None /\ ListingFetched) =>
       /\ orch.urls = SubSeq(urls_of(orch.listing), 1, Min(limit, found))
       /\ Len(orch.trace) >= 2 => orch.trace[2].input = Some(orch.urls)
       /\ orch.report # None =>
            /\ orch.report[1].found = found
            /\ orch.report[1].processed = Min(limit, found)
            /\ orch.report[1].processed <= orch.report[1].found

(* ---------------------------------------------------------------------- *)
(* run_all: apps/worker/worker.py                                          *)
(* One turn of its loop runs a whole run_slug, which returns its report    *)
(* or raises out of a stage. The slug reports of a batch are taken to be   *)
(* written (a write_report that raises inside run_slug is followed in      *)
(* RunSlugSpec); the write of the batch report may raise.                  *)
(* ---------------------------------------------------------------------- *)
MaxSlugs == 2

\* the limit argument of run_all
BatchLimits == {None, Some(1)}

\* the slugs argument of run_all
Batches == UNION {[1..n -> Slugs] : n \in 0..MaxSlugs}

add_report_without_skipped(summary, res) ==
  [summary EXCEPT
     !.by_slug = Append(@, res),
     !.total_found = @ + res.found,
     !.total_processed = @ + res.processed,
     !.inserted = @ + res.inserted,
     !.updated = @ + res.updated,
     !.errors = @ + res.errors]

\* the try branch of the loop of run_all
add_report(summary, res) ==
  [summary EXCEPT
     !.by_slug = Append(@, res),
     !.total_found = @ + res.found,
     !.total_processed = @ + res.processed,
     !.inserted = @ + res.inserted,
     !.updated = @ + res.updated,
     !.skipped = @ + res.skipped,
     !.errors = @ + res.errors]

add_failure_twice(summary, s) ==
  [summary EXCEPT
     !.by_slug = @ \o <<[slug |-> s, error |-> "pipeline failed"],
                        [slug |-> s, error |-> "pipeline failed"]>>,
     !.errors = @ + 1]

\* the except branch of the loop of run_all
add_failure(summary, s) ==
  [summary EXCEPT
     !.by_slug = Append(@, [slug |-> s, error |-> "pipeline failed"]),
     !.errors = @ + 1]

\* run_all(slugs, limit) is called: summary = {...}
RunAllBegin(slugs, limit) ==
  /\ batch.pc = "idle"
  /\ now' = [now EXCEPT !.instant = @ + 1]
  /\ batch' = [batch EXCEPT
                 !.pc = "running", !.slugs = slugs, !.todo = slugs,
                 !.limit = limit,
                 !.summary = summary_at([second |-> now.second,
                                         instant |-> now.instant + 1])]
  /\ UNCHANGED <<crawlVars, fetchVars, geoVars, orch, files, writes, task>>

\* the handlers that let the exception of a slug's run through
run_all_catches_report_only(what) == what = "report"

\* the two try blocks of run_all: "except Exception" around the run of a
\* slug and around the write of the batch report
run_all_catches(what) == what \in {"slug", "report"}

\* one turn of "for s in slugs"
RunAllSlug(raises, listing, stats) ==
  /\ batch.pc = "running"
  /\ batch.todo # <<>>
  /\ LET s == Head(batch.todo)
         end == run_slug(files, now, writes, s, batch.limit, listing, stats,
                         FALSE)
     IN IF raises /\ ~run_all_catches("slug")
        THEN /\ batch' = [batch EXCEPT !.pc = "raised",
                                       !.outcomes = Append(@, "raised")]
             /\ UNCHANGED <<files, now, writes>>
        ELSE IF raises
        THEN /\ batch' = [batch EXCEPT
                            !.todo = Tail(@),
                            !.outcomes = Append(@, "raised"),
                            !.summary = add_failure(@, s)]
             /\ UNCHANGED <<files, now, writes>>
        ELSE /\ batch' = [batch EXCEPT
                            !.todo = Tail(@),
                            !.outcomes = Append(@, "returned"),
                            !.summary = add_report(@, end.report)]
             /\ files' = end.files
             /\ now' = end.now
             /\ writes' = end.writes
  /\ UNCHANGED <<crawlVars, fetchVars, geoVars, orch, task>>

\* try: p = write_report("batch", summary); summary["report_path"] = p;
\* except Exception: warning; return summary
RunAllReport(write_raises) ==
  /\ batch.pc = "running"
  /\ batch.todo = <<>>
  /\ LET w == write_report(files, "batch", batch.summary, now.second,
                           write_raises)
     IN /\ files' = w.files
        /\ writes' = IF write_raises THEN writes
                     ELSE Append(writes, [path |-> w.path[1],
                                          doc |-> batch.summary])
        /\ batch' = [batch EXCEPT
                       !.pc = IF write_raises /\ ~run_all_catches("report")
                              THEN "raised" ELSE "returned",
                       !.write_raised = write_raises,
                       !.summary.report_path = w.path]
  /\ UNCHANGED <<crawlVars, fetchVars, geoVars, orch, now, task>>

RunAllNext ==
  \/ \E slugs \in Batches : \E limit \in BatchLimits :
       RunAllBegin(slugs, limit)
  \/ \E raises \in BOOLEAN : \E listing \in Listings :
       \E stats \in UpsertStats : RunAllSlug(raises, listing, stats)
  \/ \E write_raises \in BOOLEAN : RunAllReport(write_raises)

RunAllSpec == Init /\ [][RunAllNext]_vars

(* ---------------------------------------------------------------------- *)
(* Properties of run_all                                                   *)
(* ---------------------------------------------------------------------- *)
BySlug == batch.summary.by_slug

IsErrorEntry(entry) == "error" \in DOMAIN entry

BatchReturned == batch.pc = "returned"

\* the slugs whose turn of the loop is over
SlugsDone == Len(batch.slugs) - Len(batch.todo)

\* C17: in a batch a slug whose run fails is caught and recorded as one
\* error entry, every later slug still runs, by_slug has exactly one entry
\* per input slug in input order (an error entry exactly for the slugs that
\* failed), and the batch report is still written unless its own write
\* fails.
C17_BatchSurvivesFailure ==
  /\ Len(BySlug) = SlugsDone
  /\ Len(batch.outcomes) = SlugsDone
  /\ \A i \in DOMAIN BySlug :
       /\ BySlug[i].slug = batch.slugs[i]
       /\ IsErrorEntry(BySlug[i]) <=> batch.outcomes[i] = "raised"
  /\ batch.summary.errors >=
       Cardinality({i \in DOMAIN batch.outcomes :
                      batch.outcomes[i] = "raised"})
  /\ BatchReturned =>
       /\ Len(BySlug) = Len(batch.slugs)
       /\ ~batch.write_raised =>
            /\ batch.summary.report_path # None
            /\ batch.summary.report_path[1].slug = "batch"
            /\ batch.summary.report_path[1] \in DOMAIN files
            /\ files[batch.summary.report_path[1]].by_slug = BySlug

C17_Witness ==
  /\ BatchReturned
  /\ batch.outcomes = <<"raised", "returned">>
  /\ ~batch.write_raised
  /\ batch.summary.errors = 1
  /\ BySlug[2].found = 2

RECURSIVE SumOver(_, _)
\* the sum of one count over the reports among the entries
SumOver(entries, key) ==
  IF entries = <<>> THEN 0
  ELSE (IF IsErrorEntry(Head(entries)) THEN 0 ELSE Head(entries)[key])
       + SumOver(Tail(entries), key)

FailedSlugs == Cardinality({i \in DOMAIN BySlug : IsErrorEntry(BySlug[i])})

\* C18: the found, processed, inserted, updated and skipped totals of the
\* batch report are the sums of these counts over the slug reports in
\* by_slug, and its errors is the sum of the slug reports' errors plus the
\* number of slugs whose run failed.
C18_BatchTotals ==
  /\ batch.summary.total_found = SumOver(BySlug, "found")
  /\ batch.summary.total_processed = SumOver(BySlug, "processed")
  /\ batch.summary.inserted = SumOver(BySlug, "inserted")
  /\ batch.summary.updated = SumOver(BySlug, "updated")
  /\ batch.summary.skipped = SumOver(BySlug, "skipped")
  /\ batch.summary.errors = SumOver(BySlug, "errors") + FailedSlugs
  /\ \A path \in DOMAIN files :
       path.slug = "batch" =>
         /\ files[path].total_found = SumOver(files[path].by_slug, "found")
         /\ files[path].skipped = SumOver(files[path].by_slug, "skipped")
         /\ files[path].errors =
              SumOver(files[path].by_slug, "errors")
              + Cardinality({i \in DOMAIN files[path].by_slug :
                               IsErrorEntry(files[path].by_slug[i])})

C18_Witness ==
  /\ BatchReturned
  /\ ~batch.write_raised
  /\ batch.outcomes = <<"returned", "raised">>
  /\ batch.summary.skipped = 1
  /\ batch.summary.errors = 2
  /\ batch.summary.total_found = 2
  /\ batch.summary.total_processed = 1

(* ---------------------------------------------------------------------- *)
(* Run Reports over several runs: run_slug, write_report                   *)
(* A run is a whole run_slug whose stages return; the clock moves between  *)
(* runs or not. Runs of different workers write one after the other, so a  *)
(* run that follows another within the same second stands for a            *)
(* concurrent one as well.                                                 *)
(* ---------------------------------------------------------------------- *)
MaxReports == 2

MaxSeconds == 1

\* upsert results without errors
CleanStats == {stats \in UpsertStats : get(stats.errors, 0) = 0}

\* run_slug(slug) from its call to its return
ReportRun(slug, listing, stats, write_raises) ==
  /\ now.instant < MaxReports
  /\ LET end == run_slug(files, now, writes, slug, None, listing, stats,
                         write_raises)
     IN /\ files' = end.files
        /\ now' = end.now
        /\ writes' = end.writes
  /\ UNCHANGED <<crawlVars, fetchVars, geoVars, orch, batch, task>>

\* a second passes
Tick ==
  /\ now.second < MaxSeconds
  /\ now' = [now EXCEPT !.second = @ + 1]
  /\ UNCHANGED <<crawlVars, fetchVars, geoVars, orch, files, writes, batch,
                 task>>

ReportNext ==
  \/ \E slug \in Slugs : \E listing \in Listings : \E stats \in CleanStats :
       \E write_raises \in BOOLEAN :
         ReportRun(slug, listing, stats, write_raises)
  \/ Tick

ReportSpec == Init /\ [][ReportNext]_vars

(* ---------------------------------------------------------------------- *)
(* Properties of the Run Reports                                           *)
(* ---------------------------------------------------------------------- *)
\* C19: a run writes its Run Report at most once, at its end, and a
\* persisted report is never changed afterwards: no run writes two
\* documents, and the file a run wrote holds the document that run wrote
\* whatever later steps and other runs (repeated at once or concurrent, of
\* the same slug) do.
C19_ReportWrittenOnceNeverMutated ==
  /\ \A i, j \in DOMAIN writes :
       writes[i].doc.timestamp = writes[j].doc.timestamp => i = j
  /\ \A i \in DOMAIN writes :
       /\ writes[i].path \in DOMAIN files
       /\ files[writes[i].path] = writes[i].doc

(* ---------------------------------------------------------------------- *)
(* The Celery tasks crawl_slug and crawl_many: apps/worker/worker.py       *)
(* autoretry_for=(Exception,) with retry_kwargs max_retries: an exception  *)
(* out of the task body sends the task back to the queue while             *)
(* request.retries < max_retries, and fails the task otherwise.            *)
(* ---------------------------------------------------------------------- *)
max_retries == 3

retry_never(retries) == FALSE

\* the retry decision of the task runner
should_retry(retries) == retries < max_retries

\* conf.update sets task_acks_late and leaves task_acks_on_failure_or_timeout
\* at its default: the message of an execution that raised is acknowledged
acks_on_failure_or_timeout == TRUE

\* task_acks_late: the message is acknowledged when the execution is over
acked_after(acks, outcome) ==
  IF outcome = "returned" \/ acks_on_failure_or_timeout
  THEN Append(acks, outcome) ELSE acks

\* crawl_slug.delay(slug, limit)
SendCrawlSlug(slug, limit) ==
  /\ task.state = "none"
  /\ task' = [task EXCEPT !.state = "queued", !.name = "crawler.run_slug",
                          !.slug = slug, !.limit = limit]
  /\ UNCHANGED <<crawlVars, fetchVars, geoVars, orch, files, now, writes,
                 batch>>

\* crawl_many.delay(slugs, limit)
SendCrawlMany(slugs, limit) ==
  /\ task.state = "none"
  /\ task' = [task EXCEPT !.state = "queued", !.name = "crawler.run_all",
                          !.slugs = slugs, !.limit = limit]
  /\ UNCHANGED <<crawlVars, fetchVars, geoVars, orch, files, now, writes,
                 batch>>

\* a worker takes the task and enters its body: run_slug(slug, limit=limit)
\* or run_all(slugs, limit=limit)
TaskBegin ==
  /\ task.state = "queued"
  /\ task' = [task EXCEPT !.state = "started", !.executions = @ + 1]
  /\ IF task.name = "crawler.run_slug"
     THEN /\ orch' = [NoRun EXCEPT !.pc = "fetch_listing",
                                   !.slug = task.slug, !.limit = task.limit]
          /\ UNCHANGED <<batch, now>>
     ELSE /\ now' = [now EXCEPT !.instant = @ + 1]
          /\ batch' = [NoBatch EXCEPT
                         !.pc = "running", !.slugs = task.slugs,
                         !.todo = task.slugs, !.limit = task.limit,
                         !.summary = summary_at([second |-> now.second,
                                                 instant |-> now.instant + 1])]
          /\ UNCHANGED orch
  /\ UNCHANGED <<crawlVars, fetchVars, geoVars, files, writes>>

\* the body has returned: the task succeeds
TaskSuccess ==
  /\ task.state = "started"
  /\ \/ task.name = "crawler.run_slug" /\ orch.pc = "returned"
     \/ task.name = "crawler.run_all" /\ batch.pc = "returned"
  /\ task' = [task EXCEPT !.state = "success",
                          !.outcomes = Append(@, "returned"),
                          !.acks = Append(@, "returned")]
  /\ UNCHANGED <<crawlVars, fetchVars, geoVars, orch, files, now, writes,
                 batch>>

\* the body has raised: the task is retried, or fails for good
TaskRaised ==
  /\ task.state = "started"
  /\ \/ task.name = "crawler.run_slug" /\ orch.pc = "raised"
     \/ task.name = "crawler.run_all" /\ batch.pc = "raised"
  /\ IF should_retry(task.retries)
     THEN task' = [task EXCEPT !.state = "queued", !.retries = @ + 1,
                               !.outcomes = Append(@, "raised"),
                               !.acks = acked_after(@, "raised")]
     ELSE task' = [task EXCEPT !.state = "failure",
                               !.outcomes = Append(@, "raised"),
                               !.acks = acked_after(@, "raised")]
  /\ UNCHANGED <<crawlVars, fetchVars, geoVars, orch, files, now, writes,
                 batch>>

TaskNext ==
  \/ \E slug \in Slugs : \E limit \in Limits : SendCrawlSlug(slug, limit)
  \/ \E slugs \in Batches : \E limit \in BatchLimits :
       SendCrawlMany(slugs, limit)
  \/ TaskBegin
  \/ TaskSuccess
  \/ TaskRaised
  \/ \E raises \in BOOLEAN : \E listing \in Listings :
       StageFetchListing(raises, listing)
  \/ \E raises \in BOOLEAN : StageExtractDetails(raises)
  \/ \E raises \in BOOLEAN : StageNormalize(raises)
  \/ \E raises \in BOOLEAN : StageEnrich(raises)
  \/ \E raises \in BOOLEAN : \E stats \in UpsertStats :
       StageUpsert(raises, stats)
  \/ \E write_raises \in BOOLEAN : RunSlugReport(write_raises)
  \/ \E raises \in BOOLEAN : \E listing \in Listings :
       \E stats \in UpsertStats : RunAllSlug(raises, listing, stats)
  \/ \E write_raises \in BOOLEAN : RunAllReport(write_raises)

TaskSpec == Init /\ [][TaskNext]_vars

(* ---------------------------------------------------------------------- *)
(* Properties of the tasks                                                 *)
(* ---------------------------------------------------------------------- *)
TaskEnded == task.state \in {"success", "failure"}

LastOutcome == task.outcomes[Len(task.outcomes)]

\* C20: a task whose body raises is retried automatically, a body that
\* returns ends the retrying, there are at most 3 retries (max_retries), and
\* once they are used up the failure is final and the task is not executed
\* again: the task fails only after the execution that follows the third
\* retry has raised, every execution but the last one raised, and an ended
\* task has as many executions as outcomes.
C20_RetryCeiling ==
  /\ task.retries <= 3
  /\ task.executions <= task.retries + 1
  /\ task.state \in {"started", "success", "failure"} =>
       task.executions = task.retries + 1
  /\ \A i \in DOMAIN task.outcomes :
       i < Len(task.outcomes) => task.outcomes[i] = "raised"
  /\ task.state = "success" <=>
       (task.outcomes # <<>> /\ LastOutcome = "returned")
  /\ task.state = "failure" =>
       /\ task.retries = 3
       /\ Len(task.outcomes) = 4
       /\ LastOutcome = "raised"
  /\ (task.state = "queued" /\ task.outcomes # <<>>) =>
       /\ LastOutcome = "raised"
       /\ Len(task.outcomes) = task.retries
  /\ TaskEnded => task.executions = Len(task.outcomes)

C20_Witness ==
  /\ task.state = "failure"
  /\ task.executions = 4
  /\ task.outcomes = <<"raised", "raised", "raised", "raised">>

\* C29: run_all lets no exception of a slug's run or of the write of the
\* batch report out, so crawl_many is executed once and succeeds, without
\* a retry, also when every slug fails; each slug of the batch, a failing
\* one too, is run once in the batch.
C29_BatchTaskNeverRetried ==
  task.name = "crawler.run_all" =>
    /\ batch.pc # "raised"
    /\ task.retries = 0
    /\ task.executions <= 1
    /\ task.state # "failure"
    /\ \A i \in DOMAIN task.outcomes : task.outcomes[i] = "returned"
    /\ task.state \in {"started", "success"} =>
         /\ batch.slugs = task.slugs
         /\ Len(batch.outcomes) = Len(batch.slugs) - Len(batch.todo)
         /\ Len(batch.summary.by_slug) = Len(batch.outcomes)
         /\ \A i \in DOMAIN batch.outcomes :
              batch.summary.by_slug[i].slug = batch.slugs[i]
    /\ task.state = "success" => batch.todo = <<>>

\* a batch of two slugs that both failed, its report could not be written,
\* and the task has succeeded in its one execution
C29_Witness ==
  /\ task.name = "crawler.run_all"
  /\ task.state = "success"
  /\ task.executions = 1
  /\ Len(batch.slugs) = 2
  /\ batch.outcomes = <<"raised", "raised">>
  /\ batch.write_raised

(* ---------------------------------------------------------------------- *)
(* Delivery of a crawl_slug task with task_acks_late                       *)
(* The worker can be lost while the body runs: the message was not yet     *)
(* acknowledged and the broker delivers it again.                          *)
(* ---------------------------------------------------------------------- *)
MaxLost == 1

\* the worker is lost during an execution: the message goes back to the
\* queue, the retry count is that of the message
WorkerLost ==
  /\ task.state = "started"
  /\ task.lost < MaxLost
  /\ task' = [task EXCEPT !.state = "queued", !.lost = @ + 1,
                          !.outcomes = Append(@, "lost")]
  /\ UNCHANGED <<crawlVars, fetchVars, geoVars, orch, files, now, writes,
                 batch>>

DeliveryNext ==
  \/ \E slug \in Slugs : SendCrawlSlug(slug, None)
  \/ TaskBegin
  \/ TaskSuccess
  \/ TaskRaised
  \/ WorkerLost
  \/ \E raises \in BOOLEAN : \E listing \in Listings :
       StageFetchListing(raises, listing)
  \/ \E raises \in BOOLEAN : StageExtractDetails(raises)
  \/ \E raises \in BOOLEAN : StageNormalize(raises)
  \/ \E raises \in BOOLEAN : StageEnrich(raises)
  \/ \E raises \in BOOLEAN : \E stats \in UpsertStats :
       StageUpsert(raises, stats)
  \/ \E write_raises \in BOOLEAN : RunSlugReport(write_raises)

DeliverySpec == Init /\ [][DeliveryNext]_vars

\* C21: at-least-once execution: a unit of work is acknowledged only after
\* it has completed successfully; a unit whose worker is lost or whose run
\* fails before completion is not acknowledged and is delivered again, so
\* a unit that ended without success has not ended for good.
C21_AckOnlyAfterSuccess ==
  /\ \A i \in DOMAIN task.acks : task.acks[i] = "returned"
  /\ task.state # "failure"
  /\ (task.outcomes # <<>> /\ LastOutcome \in {"raised", "lost"}) =>
       task.state \in {"queued", "started"}

(* ---------------------------------------------------------------------- *)
(* Further properties of fetch() and run()                                 *)
(* ---------------------------------------------------------------------- *)
\* C22: records upserted in a crawl run are not lost when a later step of
\* the run fails: once the run has ended, by its return or by an exception
\* of a later detail page, the rows its upserts wrote are committed.
C22_EarlierUpsertsPersist ==
  (fpc \in {"raised", "returned"} /\ log # {}) =>
    /\ committed = db
    /\ \A e \in log : e.offer \in DOMAIN committed.offers

(* ---------------------------------------------------------------------- *)
(* Two runs side by side (base.py run, _persist_event; models.py)          *)
(* ---------------------------------------------------------------------- *)
\* the values of the unique columns of the rows a session added to the
\* tables it read: Offer.external_id, Location.fingerprint, Category.slug
inserted_keys(base, view) ==
  [offers |-> {view.offers[i].external_id :
                 i \in (Len(base.offers) + 1)..Len(view.offers)},
   locations |-> {view.locations[i].fingerprint :
                    i \in (Len(base.locations) + 1)..Len(view.locations)},
   categories |-> {view.categories[i].slug :
                     i \in (Len(base.categories) + 1)..Len(view.categories)}]

\* unique=True on the three columns: an INSERT whose key another
\* transaction has committed in the meantime is refused (IntegrityError)
violates_unique(store, keys) ==
  \/ \E i \in DOMAIN store.offers : store.offers[i].external_id \in keys.offers
  \/ \E i \in DOMAIN store.locations :
       store.locations[i].fingerprint \in keys.locations
  \/ \E i \in DOMAIN store.categories : store.categories[i].slug \in keys.categories

\* run() up to the flush of _persist_event for the one record fetch()
\* yields: the queries see the committed rows, the session adds its own
SessionPersist(r, c, rec) ==
  /\ sessions[r].pc = "idle"
  /\ rec \in PagesOf[c]
  /\ sessions' = [sessions EXCEPT ![r] =
                    [pc |-> "flushed", crawler |-> c, record |-> rec,
                     base |-> committed,
                     view |-> _persist_event(committed, c, Catalogue[rec]).db]]
  /\ UNCHANGED <<db, committed, run, returned, last, log, runs, fetchVars,
                 serviceVars>>

\* the store settles the session's INSERTs and run() commits.  Nothing in
\* run(), _persist_event, _upsert_location or _get_or_create_category
\* catches the IntegrityError: it leaves run() and the run has failed.
SessionCommit(r) ==
  /\ sessions[r].pc = "flushed"
  /\ IF violates_unique(committed,
                        inserted_keys(sessions[r].base, sessions[r].view))
     THEN /\ sessions' = [sessions EXCEPT ![r].pc = "raised"]
          /\ UNCHANGED <<db, committed>>
     ELSE /\ sessions' = [sessions EXCEPT ![r].pc = "returned"]
          /\ committed' = _persist_event(committed, sessions[r].crawler,
                                         Catalogue[sessions[r].record]).db
          /\ db' = committed'
  /\ UNCHANGED <<run, returned, last, log, runs, fetchVars, serviceVars>>

ConcurrentNext ==
  \/ \E r \in Sessions : \E c \in Crawlers : \E rec \in PagesOf[c] :
       SessionPersist(r, c, rec)
  \/ \E r \in Sessions : SessionCommit(r)

ConcurrentSpec == Init /\ [][ConcurrentNext]_vars

\* both sessions found one of their keys absent and inserted it
BothInserted ==
  /\ \A r \in Sessions : sessions[r].pc \in {"raised", "returned"}
  /\ \E kind \in {"offers", "locations", "categories"} :
       inserted_keys(sessions[1].base, sessions[1].view)[kind]
         \cap inserted_keys(sessions[2].base, sessions[2].view)[kind] # {}

\* C23: when two runs going on side by side both find a Location
\* fingerprint, a Category slug or an Offer identity absent and both insert
\* it, neither run fails and the store holds exactly one row for the key.
C23_ConcurrentInsertResolved ==
  BothInserted =>
    /\ \A r \in Sessions : sessions[r].pc = "returned"
    /\ \A i, j \in DOMAIN committed.offers :
         committed.offers[i].external_id = committed.offers[j].external_id => i = j
    /\ \A i, j \in DOMAIN committed.locations :
         committed.locations[i].fingerprint = committed.locations[j].fingerprint
           => i = j
    /\ \A i, j \in DOMAIN committed.categories :
         committed.categories[i].slug = committed.categories[j].slug => i = j

(* ---------------------------------------------------------------------- *)
(* Order of upserts (base.py _persist_event)                               *)
(* ---------------------------------------------------------------------- *)
\* what a store holds, whatever primary keys its rows were given: the
\* Location and Category rows, and each Offer with the rows it refers to
content(store) ==
  [locations |-> Range(store.locations),
   categories |-> Range(store.categories),
   offers |-> {[offer |-> [store.offers[i] EXCEPT !.location = 0,
                                                  !.categories = <<>>],
                location |-> IF store.offers[i].location = 0 THEN None
                             ELSE Some(store.locations[store.offers[i].location]),
                categories |-> [k \in DOMAIN store.offers[i].categories |->
                                  store.categories[store.offers[i].categories[k]]]]
               : i \in DOMAIN store.offers}]

\* the store after record p of crawler c1, then record q of crawler c2
upsert_both(store, c1, p, c2, q) ==
  _persist_event(_persist_event(store, c1, Catalogue[p]).db, c2, Catalogue[q]).db

\* C24: for any two Transfer Records, upserting them in either order leaves
\* the store in the same final state.
C24_UpsertsCommute ==
  \A c1, c2 \in Crawlers : \A p \in PagesOf[c1] : \A q \in PagesOf[c2] :
    content(upsert_both(db, c1, p, c2, q)) = content(upsert_both(db, c2, q, c1, p))

(* ---------------------------------------------------------------------- *)
(* Records with missing or empty optional fields (base.py _persist_event)  *)
(* ---------------------------------------------------------------------- *)
\* every EventPayload of aachen-family's page 42 with each optional field
\* absent, empty or set, in all combinations
Payloads ==
  [external_id : {<<"4","2">>}, title : {"Fest"},
   description : {EmptyText, Text("d5", 450)},
   source_url : {"https://a/42"},
   summary : {None, Some(EmptyText), Some(Text("s5", 10))},
   image_url : {None, Some("img5")},
   dt_start : {None, Some(1)},
   dt_end : {None, Some(2)},
   location_name : {None, Some(<<>>), Some(<<"M">>)},
   location_address : {None, Some(<<>>), Some(<<"H">>)},
   location_city : {None, Some(<<>>), Some(<<"A">>)},
   categories : {<<>>, << <<>> >>, << <<"k">> >>},
   price_text : {None, Some(EmptyText), Some(Text("p5", 10))},
   is_free : {None, Some(TRUE)},
   is_outdoor : {None, Some(FALSE)}]

\* the test of line 114 without its first half
price_text_fills_unguarded(payload) ==
  Take(IF TextTruthy(payload.summary) THEN payload.summary[1]
       ELSE Take(payload.description, DescriptionSummaryLen), SummaryLen).len = 0

\* if payload.price_text and not offer.summary
price_text_fills(payload) ==
  /\ TextTruthy(payload.price_text)
  /\ Take(IF TextTruthy(payload.summary) THEN payload.summary[1]
          ELSE Take(payload.description, DescriptionSummaryLen), SummaryLen).len = 0

\* x or y on Optional[str] operands
or_else(x, y) == IF TextTruthy(x) THEN x ELSE y

\* the expressions of _persist_event, _upsert_location and
\* _get_or_create_category that subscript, join or strip a value, each with
\* whether the value it is applied to is None for this record: a TypeError
\* (AttributeError for strip)
dereferenced(payload) ==
  {[at |-> "summary[:400]",
    none |-> IsNone(or_else(payload.summary,
                            Some(Take(payload.description,
                                      DescriptionSummaryLen))))]}
  \cup (IF price_text_fills(payload)
        THEN {[at |-> "price_text[:400]", none |-> IsNone(payload.price_text)]}
        ELSE {})
  \cup (IF has_location(payload)
        THEN {[at |-> "join", none |-> IsNone(Some(StrOrEmpty(o)))] :
                o \in {payload.location_name, payload.location_address,
                       payload.location_city}}
        ELSE {})
  \cup {[at |-> "name.strip()", none |-> IsNone(Some(payload.categories[k]))] :
          k \in {i \in DOMAIN payload.categories : payload.categories[i] # <<>>}}

\* does the upsert of the record raise before it reaches the store
raises_on(payload) == \E d \in dereferenced(payload) : d.none

\* the catalogue record upserted first, so that the store knows the Offer:
\* a1, with a location and categories
QualitySeeds == {r \in PagesOf[1] : Catalogue[r].title = "Stadtfest"}

\* _persist_event of the record upserted first
QualitySeed(rec) ==
  /\ last.op = "none"
  /\ rec \in QualitySeeds
  /\ LET res == _persist_event(db, 1, Catalogue[rec])
     IN /\ db' = res.db
        /\ last' = [op |-> "persist", crawler |-> 1, record |-> rec,
                    status |-> res.status, offer |-> res.id, pre |-> db]
  /\ UNCHANGED <<committed, run, returned, log, runs, sessions, fetchVars,
                 serviceVars>>

\* _persist_event(payload) for any of the records above
QualityUpsert ==
  /\ last.op = "none" \/ last.record # 0
  /\ \E payload \in Payloads :
       LET res == _persist_event(db, 1, payload)
       IN IF raises_on(payload)
          THEN /\ last' = [op |-> "persist", crawler |-> 1, record |-> 0,
                           status |-> "raised", offer |-> 0, pre |-> db,
                           payload |-> payload]
               /\ UNCHANGED db
          ELSE /\ db' = res.db
               /\ last' = [op |-> "persist", crawler |-> 1, record |-> 0,
                           status |-> res.status, offer |-> res.id, pre |-> db,
                           payload |-> payload]
  /\ UNCHANGED <<committed, run, returned, log, runs, sessions, fetchVars,
                 serviceVars>>

QualityNext ==
  \/ \E rec \in QualitySeeds : QualitySeed(rec)
  \/ QualityUpsert

QualitySpec == Init /\ [][QualityNext]_vars

\* one of the records above has been upserted
QualityUpserted == last.op = "persist" /\ last.record = 0

\* C25: a record whose optional fields are missing or empty, in any
\* combination, is persisted and the upsert returns created or updated; it
\* does not raise.
C25_UpsertAcceptsMissingFields ==
  QualityUpserted =>
    /\ last.status =
         status_of(find_offer(last.pre,
                              make_external_id(1, [external_id |-> <<"4","2">>]))
                     = {})
    /\ last.offer \in DOMAIN db.offers
    /\ db.offers[last.offer].title = "Fest"

\* a record with no optional field at all has updated an Offer that had a
\* location
C25_Witness ==
  /\ QualityUpserted
  /\ last.status = "updated"
  /\ last.payload = EventPayload(<<"4","2">>, "Fest", EmptyText, "https://a/42")
  /\ last.pre.offers[last.offer].location # 0
  /\ db.offers[last.offer].description = Some(EmptyText)
  /\ db.offers[last.offer].summary = Some(EmptyText)
  /\ db.offers[last.offer].dt_start = None
  /\ db.offers[last.offer].dt_end = None
  /\ db.offers[last.offer].location = last.pre.offers[last.offer].location
  /\ db.locations = last.pre.locations
  /\ db.categories = last.pre.categories

\* name, address and city of the record are all absent or empty
EmptyLocation(payload) ==
  \A o \in {payload.location_name, payload.location_address,
             payload.location_city} : o = None \/ o = Some(<<>>)

\* C28: upserting a record whose location name, address and city are all
\* empty creates no Location row, changes no Location row and leaves the
\* Offer's location reference as it was (none for an Offer just created).
C28_EmptyLocationTouchesNothing ==
  (QualityUpserted /\ EmptyLocation(last.payload)) =>
    /\ db.locations = last.pre.locations
    /\ last.offer \in DOMAIN db.offers
    /\ db.offers[last.offer].location =
         IF last.offer \in DOMAIN last.pre.offers
         THEN last.pre.offers[last.offer].location ELSE 0

\* a record with an empty name, no address and an empty city has updated an
\* Offer that refers to a Location
C28_Witness ==
  /\ QualityUpserted
  /\ last.payload.location_name = Some(<<>>)
  /\ last.payload.location_address = None
  /\ last.payload.location_city = Some(<<>>)
  /\ last.status = "updated"
  /\ last.pre.offers[last.offer].location # 0
  /\ db.offers[last.offer].location = last.pre.offers[last.offer].location

\* the detail links of the listing pages fetch() has requested
LinksRequested == UNION {LinksOn(n) : n \in Range(requested)}

\* C27: within one fetch() every distinct detail URL is parsed and yielded at
\* most once, however many pages or cards link to it, and when the stopping
\* rule has ended the loop the number of yielded records is the number of
\* distinct detail URLs seen.
C27_EachUrlYieldedOnce ==
  /\ \A i, j \in DOMAIN yielded :
       detail_url(yielded[i]) = detail_url(yielded[j]) => i = j
  /\ \A i \in DOMAIN yielded : detail_url(yielded[i]) \in seen
  /\ fpc \in {"done", "returned"} =>
       /\ Len(yielded) = Cardinality(seen)
       /\ seen = LinksRequested

\* a fetch() that ended by its stopping rule after two or more pages, one
\* URL linked from two of them, two records yielded
C27_Witness ==
  /\ fpc = "returned"
  /\ Len(yielded) = 2
  /\ \E n, m \in Range(requested) : n < m /\ LinksOn(n) \cap LinksOn(m) # {}
  /\ \E n \in Range(requested) :
       \E i, j \in DOMAIN PageAt(site, n) :
         /\ i < j
         /\ PageAt(site, n)[i] # NoLink
         /\ PageAt(site, n)[j] # NoLink

(* ---------------------------------------------------------------------- *)
(* Further properties of run_slug                                          *)
(* ---------------------------------------------------------------------- *)
\* run_slug has returned its report
RunReturned == orch.pc = "returned" /\ orch.report # None

\* C26: every run report carries at most 3 error samples, the first ones
\* of those upsert_rows returned, and its errors is the error count of
\* upsert_rows (0 when absent), not the number of samples; the file written
\* holds the same.
C26_ErrorSamplesCapped ==
  /\ RunReturned =>
       LET report == orch.report[1]
           stats == orch.stats[1]
           samples == IF IsNone(stats.error_samples) THEN <<>>
                      ELSE stats.error_samples[1]
       IN /\ Len(report.error_samples) <= 3
          /\ Len(report.error_samples) = Min(3, Len(samples))
          /\ \A i \in DOMAIN report.error_samples :
               report.error_samples[i] = samples[i]
          /\ report.errors = IF IsNone(stats.errors) THEN 0 ELSE stats.errors[1]
          /\ report.report_path # None =>
               /\ files[report.report_path[1]].errors = report.errors
               /\ files[report.report_path[1]].error_samples
                    = report.error_samples
  /\ \A p \in DOMAIN files : Len(files[p].error_samples) <= 3

\* upsert_rows returned 4 errors with 4 samples: the report written has
\* errors 4 and 3 samples
C26_Witness ==
  /\ RunReturned
  /\ orch.stats[1].errors = Some(4)
  /\ Len(orch.stats[1].error_samples[1]) = 4
  /\ orch.report[1].errors = 4
  /\ Len(orch.report[1].error_samples) = 3
  /\ orch.report[1].report_path # None

=============================================================================
